---- MODULE Spec2Model ----
(***************************************************************************)
(* Model of GoogleAPIChecker: the worker pool of CheckAllAPIs (job queue,  *)
(* N workers, the goroutine that waits for the workers and closes the      *)
(* results channel, the collector that drives the progress bar), the       *)
(* per-item probe checkSingleAPI, and the run of runChecker that follows   *)
(* (SaveResults, GenerateReport, SaveReport, HTML report, exports).        *)
(***************************************************************************)
EXTENDS Integers, Sequences, FiniteSets, TLC

\* ---------------------------------------------------------------- bounds
\* largest catalogue the model lists
MaxItems == 2
\* largest value of the --threads flag the model tries (0 is tried too)
MaxThreads == 2
\* goroutines that call the progress bar concurrently, and calls of each
MaxCallers == 2
MaxCalls == 3
MaxResults == 3

Workers == 1..MaxThreads

Callers == 1..MaxCallers

\* ------------------------------------------------------------ catalogues
\* Four identifiers of the static lists, in the order the lists have them.
StaticSample ==
    << "compute.googleapis.com", "pubsub.googleapis.com",
       "videointelligence.googleapis.com", "appengine.googleapis.com" >>

\* The static list of checker.go names videointelligence.googleapis.com on
\* two consecutive lines (208 and 209); the sample starts with both.
LegacySample ==
    << "videointelligence.googleapis.com", "videointelligence.googleapis.com",
       "appengine.googleapis.com", "cloudtrace.googleapis.com" >>

\* Every identifier of the samples.
Names ==
    {StaticSample[k] : k \in DOMAIN StaticSample}
        \cup {LegacySample[k] : k \in DOMAIN LegacySample} \cup {""}

Min(a, b) == IF a < b THEN a ELSE b

Prefix(s, n) == SubSeq(s, 1, Min(n, Len(s)))

\* getAvailableAPIsStatic: the fixed list (here its first MaxItems samples).
getAvailableAPIsStatic == Prefix(StaticSample, MaxItems)

\* getAvailableAPIs of checker.go: the fixed list with the repeated entries.
getAvailableAPIsLegacy == Prefix(LegacySample, MaxItems)

\* What a 200 answer of the listing endpoint can decode to: any sequence of
\* names, the endpoint decides (the Discovery directory lists one item per
\* API version, so a name can come more than once).
ListedCatalogues ==
    { Prefix(s, n) : s \in {StaticSample, LegacySample}, n \in 0..MaxItems }

\* Outcomes of the listing request: a transport error, a non-200 status, an
\* undecodable body, or a decoded list.
ListErrors ==
    { "failed to get API list: transport",
      "failed to get API list, status: 403",
      "failed to parse API list response: EOF" }

\* ------------------------------------------------------- per-item tables
\* checkAPIEnabledSimulated: the enabledAPIs map, default true.
checkAPIEnabledSimulated(apiName) ==
    CASE apiName = "compute.googleapis.com" -> TRUE
      [] apiName = "pubsub.googleapis.com"  -> FALSE
      [] OTHER                              -> TRUE

\* One answer of the state endpoint: transport failure (code 0), or a status
\* code with the decoded "state" field ("" when absent, "!" when the body
\* does not decode).
HTTPResponses ==
    { [code |-> 0,   state |-> ""],
      [code |-> 200, state |-> "ENABLED"],
      [code |-> 200, state |-> "DISABLED"],
      [code |-> 200, state |-> ""],
      [code |-> 200, state |-> "!"],
      [code |-> 404, state |-> ""],
      [code |-> 500, state |-> ""] }

\* The answers the pool's probes draw from: one that enables, one that
\* disables and one that fails.
PoolResponses ==
    { r \in HTTPResponses : r.state = "ENABLED" \/ r.code \in {404, 500} }

\* A state check that takes an API the directory knows for an enabled one.
checkAPIEnabledReal_AvailableIsEnabled(project, resp) ==
    IF resp.code = 0
    THEN [enabled |-> FALSE, err |-> "failed to make API request: transport"]
    ELSE IF resp.code = 200
    THEN [enabled |-> TRUE, err |-> ""]
    ELSE IF resp.code = 404
    THEN [enabled |-> FALSE, err |-> ""]
    ELSE [enabled |-> FALSE, err |-> "API request failed with status: 500"]

\* checkAPIEnabledReal: (enabled, err) for one answer; err = "" is nil.
checkAPIEnabledReal(project, resp) ==
    IF resp.code = 0
    THEN [enabled |-> FALSE, err |-> "failed to make API request: transport"]
    ELSE IF project # ""
    THEN IF resp.code = 200
         THEN IF resp.state = "!"
              THEN [enabled |-> FALSE, err |-> "failed to parse response: EOF"]
              ELSE IF resp.state # ""
              THEN [enabled |-> (resp.state = "ENABLED"), err |-> ""]
              ELSE [enabled |-> TRUE, err |-> ""]
         ELSE IF resp.code = 404
         THEN [enabled |-> FALSE, err |-> ""]
         ELSE [enabled |-> FALSE, err |-> "API request failed with status: 500"]
    ELSE IF resp.code = 200
         THEN [enabled |-> FALSE, err |-> ""]
         ELSE IF resp.code = 404
         THEN [enabled |-> FALSE, err |-> ""]
         ELSE [enabled |-> FALSE, err |-> "API request failed with status: 500"]

\* isAPIEnabled: the real check when a token was given, else the simulation.
isAPIEnabled(useReal, project, apiName, resp) ==
    IF useReal
    THEN checkAPIEnabledReal(project, resp)
    ELSE [enabled |-> checkAPIEnabledSimulated(apiName), err |-> ""]

\* getAPIDisplayName: the displayNames map, else the identifier itself.
getAPIDisplayName(apiName) ==
    CASE apiName = "compute.googleapis.com" -> "Compute Engine API"
      [] apiName = "storage.googleapis.com" -> "Cloud Storage API"
      [] apiName = "bigquery.googleapis.com" -> "BigQuery API"
      [] apiName = "pubsub.googleapis.com" -> "Cloud Pub/Sub API"
      [] apiName = "cloudfunctions.googleapis.com" -> "Cloud Functions API"
      [] apiName = "cloudrun.googleapis.com" -> "Cloud Run API"
      [] apiName = "container.googleapis.com" -> "Kubernetes Engine API"
      [] apiName = "datastore.googleapis.com" -> "Cloud Datastore API"
      [] apiName = "firestore.googleapis.com" -> "Cloud Firestore API"
      [] apiName = "cloudsql.googleapis.com" -> "Cloud SQL API"
      [] apiName = "cloudbuild.googleapis.com" -> "Cloud Build API"
      [] apiName = "cloudtasks.googleapis.com" -> "Cloud Tasks API"
      [] apiName = "cloudscheduler.googleapis.com" -> "Cloud Scheduler API"
      [] apiName = "cloudkms.googleapis.com" -> "Cloud KMS API"
      [] apiName = "cloudiot.googleapis.com" -> "Cloud IoT API"
      [] apiName = "translate.googleapis.com" -> "Cloud Translation API"
      [] apiName = "vision.googleapis.com" -> "Cloud Vision API"
      [] apiName = "speech.googleapis.com" -> "Cloud Speech API"
      [] apiName = "language.googleapis.com" -> "Natural Language API"
      [] apiName = "ml.googleapis.com" -> "Machine Learning API"
      [] apiName = "automl.googleapis.com" -> "AutoML API"
      [] apiName = "dataflow.googleapis.com" -> "Dataflow API"
      [] apiName = "dataproc.googleapis.com" -> "Dataproc API"
      [] apiName = "analytics.googleapis.com" -> "Google Analytics API"
      [] apiName = "maps.googleapis.com" -> "Maps JavaScript API"
      [] apiName = "firebase.googleapis.com" -> "Firebase API"
      [] apiName = "appengine.googleapis.com" -> "App Engine API"
      [] OTHER -> apiName

ZeroCostInfo ==
    [HasPricing |-> FALSE, UnlimitedCost |-> FALSE, EstimatedCost |-> 0,
     Currency |-> "", PricingDetails |-> ""]

\* A cost lookup whose entry for unknown identifiers claims a price.
getCostInfo_DefaultPriced(apiName) ==
    [HasPricing |-> TRUE, UnlimitedCost |-> FALSE, EstimatedCost |-> 0,
     Currency |-> "USD",
     PricingDetails |-> "No pricing information available"]

\* getCostInfo: the costData map, else the default entry.  It never fails.
getCostInfo(apiName) ==
    CASE apiName = "compute.googleapis.com" ->
           [HasPricing |-> TRUE, UnlimitedCost |-> FALSE, EstimatedCost |-> 150,
            Currency |-> "USD",
            PricingDetails |-> "Pay per use - $0.05 per hour for standard instances"]
      [] apiName = "storage.googleapis.com" ->
           [HasPricing |-> TRUE, UnlimitedCost |-> FALSE, EstimatedCost |-> 25,
            Currency |-> "USD",
            PricingDetails |-> "Pay per use - $0.02 per GB per month"]
      [] apiName = "bigquery.googleapis.com" ->
           [HasPricing |-> TRUE, UnlimitedCost |-> TRUE, EstimatedCost |-> 0,
            Currency |-> "USD",
            PricingDetails |-> "WARNING: No usage limits - potential unlimited costs"]
      [] apiName = "pubsub.googleapis.com" ->
           [HasPricing |-> TRUE, UnlimitedCost |-> FALSE, EstimatedCost |-> 10,
            Currency |-> "USD",
            PricingDetails |-> "Pay per use - $0.40 per million messages"]
      [] apiName = "cloudfunctions.googleapis.com" ->
           [HasPricing |-> TRUE, UnlimitedCost |-> FALSE, EstimatedCost |-> 5,
            Currency |-> "USD",
            PricingDetails |-> "Pay per use - $0.40 per million invocations"]
      [] apiName = "firestore.googleapis.com" ->
           [HasPricing |-> TRUE, UnlimitedCost |-> TRUE, EstimatedCost |-> 0,
            Currency |-> "USD",
            PricingDetails |-> "WARNING: No usage limits - potential unlimited costs"]
      [] apiName = "maps.googleapis.com" ->
           [HasPricing |-> TRUE, UnlimitedCost |-> FALSE, EstimatedCost |-> 100,
            Currency |-> "USD",
            PricingDetails |-> "Pay per use - $5.00 per 1000 requests"]
      [] apiName = "datastore.googleapis.com" ->
           [HasPricing |-> TRUE, UnlimitedCost |-> TRUE, EstimatedCost |-> 0,
            Currency |-> "USD",
            PricingDetails |-> "WARNING: No usage limits - potential unlimited costs"]
      [] apiName = "cloudsql.googleapis.com" ->
           [HasPricing |-> TRUE, UnlimitedCost |-> FALSE, EstimatedCost |-> 75,
            Currency |-> "USD",
            PricingDetails |-> "Pay per use - $0.10 per hour for standard instances"]
      [] apiName = "container.googleapis.com" ->
           [HasPricing |-> TRUE, UnlimitedCost |-> FALSE, EstimatedCost |-> 50,
            Currency |-> "USD",
            PricingDetails |-> "Pay per use - $0.10 per hour for standard clusters"]
      [] apiName = "vision.googleapis.com" ->
           [HasPricing |-> TRUE, UnlimitedCost |-> FALSE, EstimatedCost |-> 30,
            Currency |-> "USD",
            PricingDetails |-> "Pay per use - $1.50 per 1000 requests"]
      [] apiName = "speech.googleapis.com" ->
           [HasPricing |-> TRUE, UnlimitedCost |-> FALSE, EstimatedCost |-> 20,
            Currency |-> "USD",
            PricingDetails |-> "Pay per use - $0.006 per 15 seconds"]
      [] apiName = "translate.googleapis.com" ->
           [HasPricing |-> TRUE, UnlimitedCost |-> FALSE, EstimatedCost |-> 15,
            Currency |-> "USD",
            PricingDetails |-> "Pay per use - $20 per million characters"]
      [] apiName = "ml.googleapis.com" ->
           [HasPricing |-> TRUE, UnlimitedCost |-> TRUE, EstimatedCost |-> 0,
            Currency |-> "USD",
            PricingDetails |-> "WARNING: No usage limits - potential unlimited costs"]
      [] apiName = "automl.googleapis.com" ->
           [HasPricing |-> TRUE, UnlimitedCost |-> TRUE, EstimatedCost |-> 0,
            Currency |-> "USD",
            PricingDetails |-> "WARNING: No usage limits - potential unlimited costs"]
      [] apiName = "dataflow.googleapis.com" ->
           [HasPricing |-> TRUE, UnlimitedCost |-> FALSE, EstimatedCost |-> 200,
            Currency |-> "USD",
            PricingDetails |-> "Pay per use - $0.06 per vCPU per hour"]
      [] apiName = "dataproc.googleapis.com" ->
           [HasPricing |-> TRUE, UnlimitedCost |-> FALSE, EstimatedCost |-> 120,
            Currency |-> "USD",
            PricingDetails |-> "Pay per use - $0.10 per vCPU per hour"]
      [] apiName = "analytics.googleapis.com" ->
           [HasPricing |-> TRUE, UnlimitedCost |-> FALSE, EstimatedCost |-> 8,
            Currency |-> "USD",
            PricingDetails |-> "Pay per use - $0.50 per 1000 requests"]
      [] apiName = "firebase.googleapis.com" ->
           [HasPricing |-> TRUE, UnlimitedCost |-> TRUE, EstimatedCost |-> 0,
            Currency |-> "USD",
            PricingDetails |-> "WARNING: No usage limits - potential unlimited costs"]
      [] apiName = "appengine.googleapis.com" ->
           [HasPricing |-> TRUE, UnlimitedCost |-> FALSE, EstimatedCost |-> 40,
            Currency |-> "USD",
            PricingDetails |-> "Pay per use - $0.05 per instance hour"]
      [] OTHER ->
           [HasPricing |-> FALSE, UnlimitedCost |-> FALSE, EstimatedCost |-> 0,
            Currency |-> "USD",
            PricingDetails |-> "No pricing information available"]

\* The zero APIResult for one identifier (CheckedAt is left out).
NewResult(apiName) ==
    [Name |-> apiName, DisplayName |-> "", Status |-> "", Enabled |-> FALSE,
     CostInfo |-> ZeroCostInfo, Error |-> ""]

\* checkSingleAPI that marks a failed check ERROR but drops the error text.
checkSingleAPI_NoErrorText(useReal, project, apiName, resp) ==
    LET r == isAPIEnabled(useReal, project, apiName, resp)
    IN  IF r.err # ""
        THEN [NewResult(apiName) EXCEPT !.Status = "ERROR"]
        ELSE [NewResult(apiName) EXCEPT
                 !.Enabled = r.enabled,
                 !.Status = IF r.enabled THEN "ENABLED" ELSE "DISABLED",
                 !.DisplayName = getAPIDisplayName(apiName),
                 !.CostInfo = getCostInfo(apiName)]

\* checkSingleAPI: the result of one probe, given the state check's answer.
checkSingleAPI(useReal, project, apiName, resp) ==
    LET r == isAPIEnabled(useReal, project, apiName, resp)
    IN  IF r.err # ""
        THEN [NewResult(apiName) EXCEPT !.Error = r.err, !.Status = "ERROR"]
        ELSE [NewResult(apiName) EXCEPT
                 !.Enabled = r.enabled,
                 !.Status = IF r.enabled THEN "ENABLED" ELSE "DISABLED",
                 !.DisplayName = getAPIDisplayName(apiName),
                 !.CostInfo = getCostInfo(apiName)]


\* ----------------------------------------------------------- file names
\* A file name is a sequence of pieces, cut so that every ".json" in it is a
\* piece of its own.

\* The default of the --output flag.
DefaultOutput == << "results", ".json" >>

\* Names a user can give to --output: the default, a name without ".json",
\* and the name the default run gives its report.
OutputNames ==
    { DefaultOutput, << "out" >>, << "results", "_report", ".json" >> }

\* strings.Replace(s, old, new, 1): the first piece old becomes new, and a
\* name without old comes back as it is.
RECURSIVE ReplaceFirst(_, _, _)
ReplaceFirst(s, old, new) ==
    IF s = << >> THEN << >>
    ELSE IF Head(s) = old THEN new \o Tail(s)
    ELSE << Head(s) >> \o ReplaceFirst(Tail(s), old, new)

\* reportFile := strings.Replace(output, ".json", "_report.json", 1)
ReportFile(out) == ReplaceFirst(out, ".json", << "_report", ".json" >>)

\* htmlFile := strings.Replace(output, ".json", "_report.html", 1)
HTMLFile(out) == ReplaceFirst(out, ".json", << "_report", ".html" >>)

\* filepath.Join(options.OutputDir, name + time stamp + extension) of the
\* three exports; the time stamp is the one of this run.
ExportPath(kind) ==
    CASE kind = "csv" -> << "dir/", "google_api_checker_", "now", ".csv" >>
      [] kind = "pdf" -> << "dir/", "google_api_checker_", "now", ".pdf" >>
      [] OTHER        -> << "dir/", "summary_", "now", ".txt" >>

\* Every path a run can write.
Paths ==
    UNION { {o, ReportFile(o), HTMLFile(o)} : o \in OutputNames }
        \cup { ExportPath(k) : k \in {"csv", "pdf", "summary"} }

NoDoc == [run |-> "", kind |-> ""]

\* The document of one kind written by this run or by a prior one.
Doc(run, kind) == [run |-> run, kind |-> kind]

\* An empty directory.
EmptyDisk == [p \in Paths |-> NoDoc]

\* os.Create(path) and the encoder: the document replaces what was there.
WriteFile(d, path, doc) == [d EXCEPT ![path] = doc]

\* What a finished run with --output o leaves in an empty directory: the
\* raw results, then the report, then the HTML report.
DiskAfterRun(o, run) ==
    WriteFile(WriteFile(WriteFile(EmptyDisk, o, Doc(run, "results")),
                        ReportFile(o), Doc(run, "report")),
              HTMLFile(o), Doc(run, "html"))

\* ----------------------------------------------------------------- state
VARIABLES
    token,          \* --token flag
    projectID,      \* --project flag
    threads,        \* --threads flag (c.threads)
    main,           \* position of runChecker / CheckAllAPIs
    i,              \* loop counter of the worker-start loop
    apis,           \* the catalogue CheckAllAPIs listed
    listErr,        \* the error CheckAllAPIs returned ("" is nil)
    jobs,           \* buffer of the jobs channel
    jobsClosed,     \* close(jobs) has run
    producer,       \* the job-sending goroutine: its position and index
    results,        \* buffer of the results channel
    resultsClosed,  \* close(results) has run
    wg,             \* counter of the sync.WaitGroup
    worker,         \* each worker goroutine: position, job in hand, result
    closer,         \* the goroutine that runs wg.Wait(); close(results)
    progress,       \* the ProgressBar (total, current, spinnerIndex)
    allResults,     \* the slice the collector appends to
    crashed,        \* "" or the runtime panic that ended the process
    files,          \* documents written by the run
    report,         \* the Report GenerateReport built
    probes,         \* history: how many probes of each identifier returned
    warnings,       \* warnings runChecker logged
    mu,             \* ProgressBar.mu: 0 when free, else the goroutine holding it
    caller,         \* goroutines calling the ProgressBar methods concurrently
    again,          \* the Report of a second GenerateReport on the same results
    output,         \* --output flag: the name of the raw-results file
    disk,           \* the file system: what document lies at each path
    tieSwap,        \* this build's sort.Slice, on a slice too long for its
                    \* insertion sort, leaves two equal neighbours exchanged
    exported        \* the ExportResults call of the run: format and outcome

vars == << token, projectID, threads, main, i, apis, listErr, jobs,
                    jobsClosed, producer, results, resultsClosed, wg, worker,
                    closer, progress, allResults, crashed, files, report,
                    probes, warnings, mu, caller, again, output, disk,
                    tieSwap, exported >>

\* The mutex of the progress bar and the goroutines that contend for it.
progVars == << mu, caller >>

\* The second report, the output name, the file system, the sort of the
\* build and the export call.
docVars == << again, output, disk, tieSwap, exported >>

poolVars == << jobs, jobsClosed, producer, results, resultsClosed, wg,
                    worker, closer, probes >>

useRealAPI == token # ""

Running == crashed = ""

\* The two runtime panics the pool can raise.
PanicInProbe == "panic in checkSingleAPI"
SendOnClosed == "panic: send on closed channel"

IdleWorker == [pc |-> "none", apiName |-> "", result |-> NewResult("")]

NoProgress == [total |-> 0, current |-> 0, spinnerIndex |-> 0, completed |-> FALSE]

NoReport == [built |-> FALSE]

\* No ExportResults call was made.
NoExport == [format |-> "", attempted |-> << >>, written |-> {}, err |-> ""]

\* A goroutine outside the progress bar's methods: calls counts its
\* finished Update calls, tmp holds the counters it read.
IdleCaller ==
    [pc |-> "idle", calls |-> 0, tmp |-> [current |-> 0, spinnerIndex |-> 0]]

\* State after flag parsing and NewGoogleAPIChecker.
Init ==
    /\ token \in {"", "test-token"}
    /\ projectID \in {"", "my-project"}
    /\ threads \in 0..MaxThreads
    /\ main = "list"
    /\ i = 0
    /\ apis = << >>
    /\ listErr = ""
    /\ jobs = << >>
    /\ jobsClosed = FALSE
    /\ producer = [pc |-> "none", next |-> 1]
    /\ results = << >>
    /\ resultsClosed = FALSE
    /\ wg = 0
    /\ worker = [w \in Workers |-> IdleWorker]
    /\ closer = "none"
    /\ progress = NoProgress
    /\ allResults = << >>
    /\ crashed = ""
    /\ files = {}
    /\ report = NoReport
    /\ probes = [n \in Names |-> 0]
    /\ warnings = {}
    /\ mu = 0
    /\ caller = [g \in Callers |-> IdleCaller]
    /\ again = NoReport
    /\ output = DefaultOutput
    /\ disk = EmptyDisk
    /\ tieSwap = FALSE
    /\ exported = NoExport


\* ---------------------------------------------------------- progress bar
SpinnerLen == 10

\* A progress bar that forgets how many items there are.
NewProgressBar_NoTotal(total) ==
    [total |-> 0, current |-> 0, spinnerIndex |-> 0, completed |-> FALSE]

\* NewProgressBar(total)
NewProgressBar(total) ==
    [total |-> total, current |-> 0, spinnerIndex |-> 0, completed |-> FALSE]

\* Update that turns the spinner but forgets the counter.
Update_NoCount(p) ==
    [p EXCEPT !.spinnerIndex = (p.spinnerIndex + 1) % SpinnerLen]

\* ProgressBar.Update: one more item done, next spinner frame.
Update(p) ==
    [p EXCEPT !.current = p.current + 1,
              !.spinnerIndex = (p.spinnerIndex + 1) % SpinnerLen]

\* ProgressBar.Complete: prints the closing line; the counters stay.
Complete(p) == [p EXCEPT !.completed = TRUE]

\* barWidth := 30
BarWidth == 30

\* filled := int(float64(barWidth) * percentage / 100), for the counters as
\* Update left them and a total above zero.  The quotient is taken in
\* floating point: at current = total it is exactly barWidth; where the
\* exact quotient is another whole number the rounding may leave the float
\* just below it, and the conversion then cuts it to one less.
FilledOutcomes(p) ==
    LET exact == (BarWidth * p.current) \div p.total
    IN  IF p.current # p.total /\ (BarWidth * p.current) % p.total = 0
        THEN {exact - 1, exact}
        ELSE {exact}

\* strings.Repeat panics on a negative count: filled below zero or above
\* barWidth.  With total = 0 the percentage is +Inf and its conversion to
\* int is out of range either way.
UpdatePanics(p) ==
    \/ p.total = 0
    \/ \E filled \in FilledOutcomes(p) : filled < 0 \/ BarWidth - filled < 0

RepeatPanic == "panic: strings: negative Repeat count"

\* ------------------------------------------------------------- listing
\* getAvailableAPIs: the catalogues the call can return without an error.
\* Without a token the static list (either source file's), with a token
\* whatever the listing endpoint answered.
getAvailableAPIs ==
    IF useRealAPI
    THEN ListedCatalogues
    ELSE {getAvailableAPIsStatic, getAvailableAPIsLegacy}

\* CheckAllAPIs, lines 66-75: the catalogue was listed; the two channels are
\* made with capacity len(apis).
ListCatalogue ==
    /\ Running
    /\ main = "list"
    /\ \E l \in getAvailableAPIs : apis' = l
    /\ main' = "spawn"
    /\ UNCHANGED << token, projectID, threads, i, listErr, poolVars, progress,
                    allResults, crashed, files, report, warnings, progVars, docVars >>

\* A listing failure that is recorded but not returned: the pool is set up
\* on the empty catalogue.
ListCatalogueFail_Continues ==
    /\ Running
    /\ main = "list"
    /\ useRealAPI
    /\ \E e \in ListErrors : listErr' = e
    /\ main' = "spawn"
    /\ UNCHANGED << token, projectID, threads, i, apis, poolVars, progress,
                    allResults, crashed, files, report, warnings, progVars, docVars >>

\* CheckAllAPIs, lines 66-69, and runChecker, lines 55-58: the listing
\* failed, CheckAllAPIs returns (nil, err) and log.Fatalf ends the process.
ListCatalogueFail ==
    /\ Running
    /\ main = "list"
    /\ useRealAPI
    /\ \E e \in ListErrors : listErr' = e
    /\ main' = "fatal"
    /\ UNCHANGED << token, projectID, threads, i, apis, poolVars, progress,
                    allResults, crashed, files, report, warnings, progVars, docVars >>

\* ---------------------------------------------------------- worker pool
\* A loop that starts a worker for every slot there is, whatever --threads.
StartWorker_NoBound ==
    /\ Running
    /\ main = "spawn"
    /\ i < MaxThreads
    /\ wg' = wg + 1
    /\ worker' = [worker EXCEPT ![i + 1].pc = "idle"]
    /\ i' = i + 1
    /\ UNCHANGED << token, projectID, threads, main, apis, listErr, jobs,
                    jobsClosed, producer, results, resultsClosed, closer,
                    progress, allResults, crashed, files, report, probes,
                    warnings, progVars, docVars >>

\* One turn of the loop `for i := 0; i < c.threads; i++`: wg.Add(1) and
\* `go c.worker(...)`.
StartWorker ==
    /\ Running
    /\ main = "spawn"
    /\ i < threads
    /\ wg' = wg + 1
    /\ worker' = [worker EXCEPT ![i + 1].pc = "idle"]
    /\ i' = i + 1
    /\ UNCHANGED << token, projectID, threads, main, apis, listErr, jobs,
                    jobsClosed, producer, results, resultsClosed, closer,
                    progress, allResults, crashed, files, report, probes,
                    warnings, progVars, docVars >>

\* The loop is over: the job-sending goroutine and the closing goroutine are
\* started and the progress bar is made (lines 84-99).
StartPipeline ==
    /\ Running
    /\ main = "spawn"
    /\ ~(i < threads)
    /\ producer' = [producer EXCEPT !.pc = "sending"]
    /\ closer' = "waiting"
    /\ progress' = NewProgressBar(Len(apis))
    /\ main' = "collect"
    /\ UNCHANGED << token, projectID, threads, i, apis, listErr, jobs, jobsClosed,
                    results, resultsClosed, wg, worker, allResults, crashed,
                    files, report, probes, warnings, progVars, docVars >>

\* `jobs <- api` into a channel that buffers one item only.
ProducerSend_SmallBuffer ==
    /\ Running
    /\ producer.pc = "sending"
    /\ producer.next <= Len(apis)
    /\ Len(jobs) < 1
    /\ jobs' = Append(jobs, apis[producer.next])
    /\ producer' = [producer EXCEPT !.next = producer.next + 1]
    /\ UNCHANGED << token, projectID, threads, main, i, apis, listErr, jobsClosed,
                    results, resultsClosed, wg, worker, closer, progress,
                    allResults, crashed, files, report, probes, warnings,
                    progVars, docVars >>

\* `jobs <- api` for the next catalogue entry; blocks while the buffer
\* (capacity len(apis)) is full.
ProducerSend ==
    /\ Running
    /\ producer.pc = "sending"
    /\ producer.next <= Len(apis)
    /\ Len(jobs) < Len(apis)
    /\ jobs' = Append(jobs, apis[producer.next])
    /\ producer' = [producer EXCEPT !.next = producer.next + 1]
    /\ UNCHANGED << token, projectID, threads, main, i, apis, listErr, jobsClosed,
                    results, resultsClosed, wg, worker, closer, progress,
                    allResults, crashed, files, report, probes, warnings, progVars, docVars >>

\* The job-sending goroutine ends without closing jobs.
ProducerClose_NoClose ==
    /\ Running
    /\ producer.pc = "sending"
    /\ producer.next > Len(apis)
    /\ producer' = [producer EXCEPT !.pc = "done"]
    /\ UNCHANGED << token, projectID, threads, main, i, apis, listErr, jobs,
                    jobsClosed, results, resultsClosed, wg, worker, closer,
                    progress, allResults, crashed, files, report, probes,
                    warnings, progVars, docVars >>

\* The range over apis is over: the deferred close(jobs) runs.
ProducerClose ==
    /\ Running
    /\ producer.pc = "sending"
    /\ producer.next > Len(apis)
    /\ jobsClosed' = TRUE
    /\ producer' = [producer EXCEPT !.pc = "done"]
    /\ UNCHANGED << token, projectID, threads, main, i, apis, listErr, jobs,
                    results, resultsClosed, wg, worker, closer, progress,
                    allResults, crashed, files, report, probes, warnings, progVars, docVars >>

\* A worker that takes only the items of its own share: item k of the
\* catalogue goes to worker 1 + (k - 1) % threads.
WorkerTake_OwnShare(w) ==
    /\ Running
    /\ worker[w].pc = "idle"
    /\ jobs # << >>
    /\ (producer.next - Len(jobs) - 1) % threads = w - 1
    /\ worker' = [worker EXCEPT ![w].pc = "probing", ![w].apiName = Head(jobs)]
    /\ jobs' = Tail(jobs)
    /\ UNCHANGED << token, projectID, threads, main, i, apis, listErr, jobsClosed,
                    producer, results, resultsClosed, wg, closer, progress,
                    allResults, crashed, files, report, probes, warnings,
                    progVars, docVars >>

\* worker: `for apiName := range jobs` receives the next job.
WorkerTake(w) ==
    /\ Running
    /\ worker[w].pc = "idle"
    /\ jobs # << >>
    /\ worker' = [worker EXCEPT ![w].pc = "probing", ![w].apiName = Head(jobs)]
    /\ jobs' = Tail(jobs)
    /\ UNCHANGED << token, projectID, threads, main, i, apis, listErr, jobsClosed,
                    producer, results, resultsClosed, wg, closer, progress,
                    allResults, crashed, files, report, probes, warnings, progVars, docVars >>

\* A worker that leaves as soon as it finds the queue empty.
WorkerExit_OnEmpty(w) ==
    /\ Running
    /\ worker[w].pc = "idle"
    /\ jobs = << >>
    /\ worker' = [worker EXCEPT ![w].pc = "exited"]
    /\ wg' = wg - 1
    /\ UNCHANGED << token, projectID, threads, main, i, apis, listErr, jobs,
                    jobsClosed, producer, results, resultsClosed, closer,
                    progress, allResults, crashed, files, report, probes,
                    warnings, progVars, docVars >>

\* worker: the range ends when jobs is closed and drained; the deferred
\* wg.Done() runs.
WorkerExit(w) ==
    /\ Running
    /\ worker[w].pc = "idle"
    /\ jobs = << >>
    /\ jobsClosed
    /\ worker' = [worker EXCEPT ![w].pc = "exited"]
    /\ wg' = wg - 1
    /\ UNCHANGED << token, projectID, threads, main, i, apis, listErr, jobs,
                    jobsClosed, producer, results, resultsClosed, closer,
                    progress, allResults, crashed, files, report, probes,
                    warnings, progVars, docVars >>

\* worker: `result := c.checkSingleAPI(apiName)` returns.
WorkerProbe(w) ==
    /\ Running
    /\ worker[w].pc = "probing"
    /\ \E resp \in PoolResponses :
          worker' = [worker EXCEPT
                        ![w].pc = "sending",
                        ![w].result = checkSingleAPI(useRealAPI, projectID,
                                                     worker[w].apiName, resp)]
    /\ probes' = [probes EXCEPT ![worker[w].apiName] = @ + 1]
    /\ UNCHANGED << token, projectID, threads, main, i, apis, listErr, jobs,
                    jobsClosed, producer, results, resultsClosed, wg, closer,
                    progress, allResults, crashed, files, report, warnings, progVars, docVars >>

\* worker: checkSingleAPI panics.  The worker has no recover, so the Go
\* runtime ends the whole process.
WorkerPanic(w) ==
    /\ Running
    /\ worker[w].pc = "probing"
    /\ crashed' = PanicInProbe
    /\ UNCHANGED << token, projectID, threads, main, i, apis, listErr, poolVars,
                    progress, allResults, files, report, warnings, progVars, docVars >>

\* worker: `results <- result`; blocks while the buffer is full, and a send
\* on a closed channel is a runtime panic.
WorkerSend(w) ==
    /\ Running
    /\ worker[w].pc = "sending"
    /\ IF resultsClosed
       THEN /\ crashed' = SendOnClosed
            /\ UNCHANGED << results, worker >>
       ELSE /\ Len(results) < Len(apis)
            /\ results' = Append(results, worker[w].result)
            /\ worker' = [worker EXCEPT ![w].pc = "idle"]
            /\ UNCHANGED crashed
    /\ UNCHANGED << token, projectID, threads, main, i, apis, listErr, jobs,
                    jobsClosed, producer, resultsClosed, wg, closer,
                    progress, allResults, files, report, probes, warnings, progVars, docVars >>

\* A wait that does not wait.
WaitDone_NoWait(n) == TRUE

\* wg.Wait() returns when the counter is zero.
WaitDone(n) == n = 0

\* The closing goroutine: wg.Wait() has returned, close(results).
CloseResults ==
    /\ Running
    /\ closer = "waiting"
    /\ WaitDone(wg)
    /\ resultsClosed' = TRUE
    /\ closer' = "closed"
    /\ UNCHANGED << token, projectID, threads, main, i, apis, listErr, jobs,
                    jobsClosed, producer, results, wg, worker, progress,
                    allResults, crashed, files, report, probes, warnings, progVars, docVars >>

\* A collector that stamps the result it appends as checked.
Collect_Restamps ==
    /\ Running
    /\ main = "collect"
    /\ results # << >>
    /\ allResults' = Append(allResults, [Head(results) EXCEPT !.Status = "CHECKED"])
    /\ results' = Tail(results)
    /\ progress' = Update(progress)
    /\ crashed' = IF UpdatePanics(Update(progress)) THEN RepeatPanic ELSE crashed
    /\ UNCHANGED << token, projectID, threads, main, i, apis, listErr, jobs,
                    jobsClosed, producer, resultsClosed, wg, worker, closer,
                    files, report, probes, warnings, progVars, docVars >>

\* The collector: one turn of `for result := range results`: append the
\* result and call progress.Update().
Collect ==
    /\ Running
    /\ main = "collect"
    /\ results # << >>
    /\ allResults' = Append(allResults, Head(results))
    /\ results' = Tail(results)
    /\ progress' = Update(progress)
    /\ crashed' = IF UpdatePanics(Update(progress)) THEN RepeatPanic ELSE crashed
    /\ UNCHANGED << token, projectID, threads, main, i, apis, listErr, jobs,
                    jobsClosed, producer, resultsClosed, wg, worker, closer,
                    files, report, probes, warnings, progVars, docVars >>

\* A collector that returns as soon as it finds no result waiting.
CollectDone_Early ==
    /\ Running
    /\ main = "collect"
    /\ results = << >>
    /\ progress' = Complete(progress)
    /\ main' = "returned"
    /\ UNCHANGED << token, projectID, threads, i, apis, listErr, poolVars,
                    allResults, crashed, files, report, warnings, progVars, docVars >>

\* The collector: results is closed and drained; progress.Complete() and
\* `return allResults, nil`.
CollectDone ==
    /\ Running
    /\ main = "collect"
    /\ results = << >>
    /\ resultsClosed
    /\ progress' = Complete(progress)
    /\ main' = "returned"
    /\ UNCHANGED << token, projectID, threads, i, apis, listErr, poolVars,
                    allResults, crashed, files, report, warnings, progVars, docVars >>


\* ---------------------------------------------------------------- report
RECURSIVE SumCost(_)

\* totalCost = EstimatedCost, overwriting what was added so far.
SumCost_Overwrites(s) ==
    IF s = << >> THEN 0 ELSE s[Len(s)].CostInfo.EstimatedCost

\* totalCost += result.CostInfo.EstimatedCost, over the results given.
SumCost(s) ==
    IF s = << >> THEN 0 ELSE s[1].CostInfo.EstimatedCost + SumCost(Tail(s))

\* A less function that puts the cheaper item first.
CostGreater_Ascending(a, b) == a.CostInfo.EstimatedCost < b.CostInfo.EstimatedCost

\* less of the high-cost sort: the dearer item first.
CostGreater(a, b) == a.CostInfo.EstimatedCost > b.CostInfo.EstimatedCost

\* Byte-wise order (Go's < on strings) of the display names the model uses:
\* upper-case letters come before lower-case ones.
NameRank(n) ==
    CASE n = "" -> 0
      [] n = "App Engine API" -> 1
      [] n = "AutoML API" -> 2
      [] n = "BigQuery API" -> 3
      [] n = "Cloud Build API" -> 4
      [] n = "Cloud Datastore API" -> 5
      [] n = "Cloud Firestore API" -> 6
      [] n = "Cloud Functions API" -> 7
      [] n = "Cloud IoT API" -> 8
      [] n = "Cloud KMS API" -> 9
      [] n = "Cloud Pub/Sub API" -> 10
      [] n = "Cloud Run API" -> 11
      [] n = "Cloud SQL API" -> 12
      [] n = "Cloud Scheduler API" -> 13
      [] n = "Cloud Speech API" -> 14
      [] n = "Cloud Storage API" -> 15
      [] n = "Cloud Tasks API" -> 16
      [] n = "Cloud Translation API" -> 17
      [] n = "Cloud Vision API" -> 18
      [] n = "Compute Engine API" -> 19
      [] n = "Dataflow API" -> 20
      [] n = "Dataproc API" -> 21
      [] n = "Firebase API" -> 22
      [] n = "Google Analytics API" -> 23
      [] n = "Kubernetes Engine API" -> 24
      [] n = "Machine Learning API" -> 25
      [] n = "Maps JavaScript API" -> 26
      [] n = "Natural Language API" -> 27
      [] n = "analytics.googleapis.com" -> 28
      [] n = "appengine.googleapis.com" -> 29
      [] n = "automl.googleapis.com" -> 30
      [] n = "bigquery.googleapis.com" -> 31
      [] n = "cloudbuild.googleapis.com" -> 32
      [] n = "cloudfunctions.googleapis.com" -> 33
      [] n = "cloudiot.googleapis.com" -> 34
      [] n = "cloudkms.googleapis.com" -> 35
      [] n = "cloudrun.googleapis.com" -> 36
      [] n = "cloudscheduler.googleapis.com" -> 37
      [] n = "cloudsql.googleapis.com" -> 38
      [] n = "cloudtasks.googleapis.com" -> 39
      [] n = "cloudtrace.googleapis.com" -> 40
      [] n = "compute.googleapis.com" -> 41
      [] n = "container.googleapis.com" -> 42
      [] n = "custom.googleapis.com" -> 43
      [] n = "dataflow.googleapis.com" -> 44
      [] n = "dataproc.googleapis.com" -> 45
      [] n = "datastore.googleapis.com" -> 46
      [] n = "firebase.googleapis.com" -> 47
      [] n = "firestore.googleapis.com" -> 48
      [] n = "language.googleapis.com" -> 49
      [] n = "maps.googleapis.com" -> 50
      [] n = "ml.googleapis.com" -> 51
      [] n = "pubsub.googleapis.com" -> 52
      [] n = "speech.googleapis.com" -> 53
      [] n = "storage.googleapis.com" -> 54
      [] n = "translate.googleapis.com" -> 55
      [] n = "unknown.googleapis.com" -> 56
      [] n = "videointelligence.googleapis.com" -> 57
      [] n = "vision.googleapis.com" -> 58
      [] OTHER -> 59

\* A less function that puts the later name first.
NameLess_Descending(a, b) == NameRank(a.DisplayName) > NameRank(b.DisplayName)

\* less of the unlimited-cost sort: the earlier display name first.
NameLess(a, b) == NameRank(a.DisplayName) < NameRank(b.DisplayName)

\* The two less functions GenerateReport hands to sort.Slice.
Less(by, a, b) == IF by = "cost" THEN CostGreater(a, b) ELSE NameLess(a, b)

\* sort.Slice on a short slice is an insertion sort: each element moves left
\* while less(element, left neighbour).
RECURSIVE InsertLeft(_, _, _)
InsertLeft(s, j, by) ==
    IF j > 1 /\ Less(by, s[j], s[j - 1])
    THEN InsertLeft([s EXCEPT ![j] = s[j - 1], ![j - 1] = s[j]], j - 1, by)
    ELSE s

RECURSIVE SortFrom(_, _, _)
SortFrom(s, k, by) ==
    IF k > Len(s) THEN s ELSE SortFrom(InsertLeft(s, k, by), k + 1, by)

insertionSort(s, by) == SortFrom(s, 2, by)

\* sort.Slice sorts up to 12 elements by insertion.
InsertionSortMax == 12

\* The places where two neighbours of a sorted slice are equal under less.
TiedNeighbours(t, by) ==
    {k \in 1..(Len(t) - 1) : ~Less(by, t[k], t[k + 1]) /\ ~Less(by, t[k + 1], t[k])}

\* The first two equal neighbours exchanged.
SwapFirstTie(t, by) ==
    IF TiedNeighbours(t, by) = {} THEN t
    ELSE LET k == CHOOSE j \in TiedNeighbours(t, by) :
                      \A m \in TiedNeighbours(t, by) : j <= m
         IN  [t EXCEPT ![k] = t[k + 1], ![k + 1] = t[k]]

\* sort.Slice: sorted by less.  Up to 12 elements are sorted by insertion; on
\* a longer slice the order of equal elements is whatever the build's
\* algorithm leaves ("not guaranteed to be stable"): input order, or not.
SortSlice(s, by) ==
    IF Len(s) <= InsertionSortMax \/ ~tieSwap
    THEN insertionSort(s, by)
    ELSE SwapFirstTie(insertionSort(s, by), by)

\* The branches of the loop over the results.
\* A loop that takes no result as failed.
IsErrored_Never(r) == FALSE

\* result.Error != "": counted, then continue
IsErrored(r) == r.Error # ""

\* A loop that takes every result without an error as enabled.
IsEnabled_NoFlag(r) == ~IsErrored(r)

\* result.Enabled, reached only without an error
IsEnabled(r) == ~IsErrored(r) /\ r.Enabled

\* A loop without the continue of the error branch.
IsDisabled_CountsErrors(r) == ~r.Enabled

\* the else branch of result.Enabled
IsDisabled(r) == ~IsErrored(r) /\ ~r.Enabled

\* A loop that prices every enabled result.
IsPriced_AnyEnabled(r) == IsEnabled(r)

\* result.CostInfo.HasPricing, inside the enabled branch
IsPriced(r) == IsEnabled(r) /\ r.CostInfo.HasPricing

\* result.CostInfo.UnlimitedCost, inside the pricing branch
IsUnlimited(r) == IsPriced(r) /\ r.CostInfo.UnlimitedCost

HighCostThreshold == 50

\* A high-cost test that takes the threshold itself.
IsHighCost_AtLeast(r) ==
    IsPriced(r) /\ r.CostInfo.EstimatedCost >= HighCostThreshold

\* result.CostInfo.EstimatedCost > 50.0, inside the pricing branch
IsHighCost(r) == IsPriced(r) /\ r.CostInfo.EstimatedCost > HighCostThreshold

\* A breakdown that keeps the first cost written under a display name.
CostBreakdown_FirstWins(priced) ==
    [n \in {priced[k].DisplayName : k \in DOMAIN priced} |->
        LET first == CHOOSE k \in DOMAIN priced :
                        /\ priced[k].DisplayName = n
                        /\ \A m \in DOMAIN priced :
                              priced[m].DisplayName = n => k <= m
        IN  priced[first].CostInfo.EstimatedCost]

\* costBreakdown[DisplayName] = EstimatedCost, a later result overwriting an
\* earlier one of the same display name.
CostBreakdown(priced) ==
    [n \in {priced[k].DisplayName : k \in DOMAIN priced} |->
        LET last == CHOOSE k \in DOMAIN priced :
                       /\ priced[k].DisplayName = n
                       /\ \A m \in DOMAIN priced :
                             priced[m].DisplayName = n => m <= k
        IN  priced[last].CostInfo.EstimatedCost]

\* fmt.Sprintf("%.2f", x) for an amount of whole dollars.
FormatCost(x) == ToString(x) \o ".00"

\* One line of the recommendations: its text (without the leading emoji) and
\* the append statement that produced it.
Line(kind, text) == [kind |-> kind, text |-> text]

\* The block for the unlimited-cost items: a summary line, then one line per
\* item with its display name and pricing details.
UnlimitedBlock(items) ==
    IF Len(items) > 0
    THEN << Line("unlimitedSummary",
                 "CRITICAL: Found " \o ToString(Len(items))
                    \o " APIs with unlimited cost potential. Review and set usage limits immediately:") >>
         \o [k \in 1..Len(items) |->
                Line("unlimitedItem",
                     "   - " \o items[k].DisplayName \o ": "
                        \o items[k].CostInfo.PricingDetails)]
    ELSE << >>

\* The block for the high-cost items: a summary line, then one line per item
\* with its display name and monthly cost.
HighCostBlock(items) ==
    IF Len(items) > 0
    THEN << Line("highCostSummary",
                 "High cost APIs detected (" \o ToString(Len(items))
                    \o " APIs with >$50 estimated cost):") >>
         \o [k \in 1..Len(items) |->
                Line("highCostItem",
                     "   - " \o items[k].DisplayName \o ": $"
                        \o FormatCost(items[k].CostInfo.EstimatedCost)
                        \o "/month")]
    ELSE << >>

TotalCostThreshold == 500

\* An advisory that is given at the threshold itself.
TotalCostAdvisory_AtLeast(totalCost) ==
    IF totalCost >= TotalCostThreshold
    THEN << Line("totalCost",
                 "Total estimated monthly cost is high: $"
                    \o FormatCost(totalCost)
                    \o ". Consider reviewing usage patterns.") >>
    ELSE << >>

\* if report.Summary.TotalCost > 500: one line with the total.
TotalCostAdvisory(totalCost) ==
    IF totalCost > TotalCostThreshold
    THEN << Line("totalCost",
                 "Total estimated monthly cost is high: $"
                    \o FormatCost(totalCost)
                    \o ". Consider reviewing usage patterns.") >>
    ELSE << >>

\* if len(report.DisabledAPIs) > 0: one line with their number.
DisabledAdvisory(disabled) ==
    IF Len(disabled) > 0
    THEN << Line("disabled",
                 ToString(Len(disabled))
                    \o " APIs are currently disabled. Review if any are needed for your application.") >>
    ELSE << >>

\* The three general recommendations.
GeneralLines ==
    << Line("general1",
            "Set up billing alerts and budget limits in Google Cloud Console"),
       Line("general2", "Regularly monitor API usage and costs"),
       Line("general3",
            "Consider using quotas and rate limiting for high-cost APIs") >>

\* Recommendations with the general lines first.
generateRecommendations_GeneralFirst(rep) ==
    GeneralLines
        \o UnlimitedBlock(rep.CostAnalysis.UnlimitedCostAPIs)
        \o HighCostBlock(rep.CostAnalysis.HighCostAPIs)
        \o TotalCostAdvisory(rep.Summary.TotalCost)
        \o DisabledAdvisory(rep.DisabledAPIs)

\* generateRecommendations: the appends in the order of the code.
generateRecommendations(rep) ==
    UnlimitedBlock(rep.CostAnalysis.UnlimitedCostAPIs)
        \o HighCostBlock(rep.CostAnalysis.HighCostAPIs)
        \o TotalCostAdvisory(rep.Summary.TotalCost)
        \o DisabledAdvisory(rep.DisabledAPIs)
        \o GeneralLines

\* GenerateReport whose loop ends at the first failed result instead of
\* going on to the next one.
GenerateReport_StopsAtError(rs) ==
    LET failed       == {k \in DOMAIN rs : IsErrored(rs[k])}
        seen         == IF failed = {} THEN rs
                        ELSE SubSeq(rs, 1, CHOOSE k \in failed :
                                              \A m \in failed : k <= m)
        enabledAPIs  == SelectSeq(seen, IsEnabled)
        disabledAPIs == SelectSeq(seen, IsDisabled)
        errorCount   == Len(SelectSeq(seen, IsErrored))
        priced       == SelectSeq(seen, IsPriced)
        totalCost    == SumCost(priced)
        rep ==
          [built |-> TRUE,
           Summary |-> [TotalAPIs |-> Len(rs),
                        EnabledCount |-> Len(enabledAPIs),
                        DisabledCount |-> Len(disabledAPIs),
                        ErrorCount |-> errorCount,
                        TotalCost |-> totalCost,
                        Currency |-> "USD"],
           EnabledAPIs |-> enabledAPIs,
           DisabledAPIs |-> disabledAPIs,
           CostAnalysis |->
              [TotalEstimatedCost |-> totalCost,
               UnlimitedCostAPIs |-> SortSlice(SelectSeq(seen, IsUnlimited), "name"),
               HighCostAPIs |-> SortSlice(SelectSeq(seen, IsHighCost), "cost"),
               CostBreakdown |-> CostBreakdown(priced)]]
    IN  [built |-> TRUE,
         Summary |-> rep.Summary,
         EnabledAPIs |-> rep.EnabledAPIs,
         DisabledAPIs |-> rep.DisabledAPIs,
         CostAnalysis |-> rep.CostAnalysis,
         Recommendations |-> generateRecommendations(rep)]

\* GenerateReport (GeneratedAt is left out).
GenerateReport(rs) ==
    LET enabledAPIs  == SelectSeq(rs, IsEnabled)
        disabledAPIs == SelectSeq(rs, IsDisabled)
        errorCount   == Len(SelectSeq(rs, IsErrored))
        priced       == SelectSeq(rs, IsPriced)
        totalCost    == SumCost(priced)
        rep ==
          [built |-> TRUE,
           Summary |-> [TotalAPIs |-> Len(rs),
                        EnabledCount |-> Len(enabledAPIs),
                        DisabledCount |-> Len(disabledAPIs),
                        ErrorCount |-> errorCount,
                        TotalCost |-> totalCost,
                        Currency |-> "USD"],
           EnabledAPIs |-> enabledAPIs,
           DisabledAPIs |-> disabledAPIs,
           CostAnalysis |->
              [TotalEstimatedCost |-> totalCost,
               UnlimitedCostAPIs |-> SortSlice(SelectSeq(rs, IsUnlimited), "name"),
               HighCostAPIs |-> SortSlice(SelectSeq(rs, IsHighCost), "cost"),
               CostBreakdown |-> CostBreakdown(priced)]]
    IN  [built |-> TRUE,
         Summary |-> rep.Summary,
         EnabledAPIs |-> rep.EnabledAPIs,
         DisabledAPIs |-> rep.DisabledAPIs,
         CostAnalysis |-> rep.CostAnalysis,
         Recommendations |-> generateRecommendations(rep)]

\* ------------------------------------------------------------ runChecker
runVars == << token, projectID, threads, i, apis, listErr, poolVars,
                    progress, allResults, crashed, progVars, output, tieSwap >>

\* checker.SaveResults(results, output): the file is written, or log.Fatalf.
SaveResults ==
    /\ Running
    /\ main = "returned"
    /\ \/ /\ files' = files \cup {"results"}
          /\ disk' = WriteFile(disk, output, Doc("this", "results"))
          /\ main' = "saved"
       \/ /\ main' = "fatal"
          /\ UNCHANGED << files, disk >>
    /\ UNCHANGED << runVars, report, warnings, again, exported >>

\* GenerateReport that sorts the slice it was given.
MakeReport_SortsInput ==
    /\ Running
    /\ main = "saved"
    /\ report' = GenerateReport(allResults)
    /\ allResults' = SortSlice(allResults, "cost")
    /\ main' = "reported"
    /\ UNCHANGED << token, projectID, threads, i, apis, listErr, poolVars,
                    progress, crashed, progVars, output, files, warnings,
                    again, disk, tieSwap, exported >>

\* report := GenerateReport(results); PrintReport(report)
MakeReport ==
    /\ Running
    /\ main = "saved"
    /\ report' = GenerateReport(allResults)
    /\ main' = "reported"
    /\ UNCHANGED << runVars, files, warnings, again, disk, exported >>

\* GenerateReport(results) called once more on the results as they are.
MakeReportAgain ==
    /\ Running
    /\ main = "reported"
    /\ ~again.built
    /\ again' = GenerateReport(allResults)
    /\ UNCHANGED << runVars, main, files, report, warnings, disk, exported >>

\* SaveReport(report, reportFile): the file is written, or log.Fatalf.
SaveReport ==
    /\ Running
    /\ main = "reported"
    /\ \/ /\ files' = files \cup {"report"}
          /\ disk' = WriteFile(disk, ReportFile(output), Doc("this", "report"))
          /\ main' = "reportSaved"
       \/ /\ main' = "fatal"
          /\ UNCHANGED << files, disk >>
    /\ UNCHANGED << runVars, report, warnings, again, exported >>

\* generateHTMLReport(results, filename): the rendering is written to the
\* file named, and a failed rendering leaves no partly written file.
generateHTMLReport(d, filename, ok) ==
    IF ok THEN WriteFile(d, filename, Doc("this", "html")) ELSE d

\* generateHTMLReport(results, htmlFile): a failure is only a warning.
HTMLReport ==
    /\ Running
    /\ main = "reportSaved"
    /\ \/ /\ files' = files \cup {"html"}
          /\ disk' = generateHTMLReport(disk, HTMLFile(output), TRUE)
          /\ UNCHANGED warnings
       \/ /\ warnings' = warnings \cup {"HTML report generation failed"}
          /\ disk' = generateHTMLReport(disk, HTMLFile(output), FALSE)
          /\ UNCHANGED files
    /\ main' = "export"
    /\ UNCHANGED << runVars, report, again, exported >>

ExportFormats == {"", "csv", "pdf", "both", "xml"}

\* ExportResults that goes on to the PDF export after a failed CSV export.
ExportResults_PdfAnyway(format, csvOK, pdfOK) ==
    CASE format = "both" ->
           [attempted |-> <<"csv", "pdf">>,
            written |-> (IF csvOK THEN {"csv"} ELSE {})
                           \cup (IF pdfOK THEN {"pdf"} ELSE {}),
            err |-> IF ~csvOK THEN "CSV export failed"
                    ELSE IF ~pdfOK THEN "PDF export failed" ELSE ""]
      [] format = "csv" ->
           [attempted |-> <<"csv">>,
            written |-> IF csvOK THEN {"csv"} ELSE {},
            err |-> IF csvOK THEN "" ELSE "failed to create CSV file"]
      [] format = "pdf" ->
           [attempted |-> <<"pdf">>,
            written |-> IF pdfOK THEN {"pdf"} ELSE {},
            err |-> IF pdfOK THEN "" ELSE "failed to save PDF"]
      [] OTHER -> [attempted |-> << >>, written |-> {},
                   err |-> "unsupported export format"]

\* ExportResults: the exports attempted in order, the files written and the
\* error ("" is nil), given whether the CSV and the PDF export would succeed.
ExportResults(format, csvOK, pdfOK) ==
    CASE format = "csv" ->
           IF csvOK
           THEN [attempted |-> <<"csv">>, written |-> {"csv"}, err |-> ""]
           ELSE [attempted |-> <<"csv">>, written |-> {},
                 err |-> "failed to create CSV file"]
      [] format = "pdf" ->
           IF pdfOK
           THEN [attempted |-> <<"pdf">>, written |-> {"pdf"}, err |-> ""]
           ELSE [attempted |-> <<"pdf">>, written |-> {},
                 err |-> "failed to save PDF"]
      [] format = "both" ->
           IF ~csvOK
           THEN [attempted |-> <<"csv">>, written |-> {},
                 err |-> "CSV export failed"]
           ELSE IF ~pdfOK
           THEN [attempted |-> <<"csv", "pdf">>, written |-> {"csv"},
                 err |-> "PDF export failed"]
           ELSE [attempted |-> <<"csv", "pdf">>, written |-> {"csv", "pdf"},
                 err |-> ""]
      [] OTHER -> [attempted |-> << >>, written |-> {},
                   err |-> "unsupported export format"]

\* The disk after the exports of the kinds given were written.
WriteExports(d, kinds) ==
    [p \in Paths |->
        IF \E k \in kinds : ExportPath(k) = p
        THEN Doc("this", CHOOSE k \in kinds : ExportPath(k) = p)
        ELSE d[p]]

\* An export whose failure ends the run with log.Fatalf.
Export_FailureFatal ==
    /\ Running
    /\ main = "export"
    /\ \E format \in ExportFormats, csvOK \in BOOLEAN, pdfOK \in BOOLEAN,
          summaryOK \in BOOLEAN :
          IF format = ""
          THEN /\ main' = "done"
               /\ UNCHANGED << files, warnings, disk, exported >>
          ELSE LET e == ExportResults(format, csvOK, pdfOK)
                   written == e.written
                                \cup (IF summaryOK THEN {"summary"} ELSE {})
               IN  /\ exported' = [format |-> format,
                                     attempted |-> e.attempted,
                                     written |-> e.written, err |-> e.err]
                   /\ files' = files \cup written
                   /\ disk' = WriteExports(disk, written)
                   /\ warnings' = warnings
                        \cup (IF e.err # "" THEN {"Export failed"} ELSE {})
                        \cup (IF summaryOK THEN {} ELSE {"Summary export failed"})
                   /\ main' = IF e.err # "" \/ ~summaryOK THEN "fatal" ELSE "done"
    /\ UNCHANGED << runVars, report, again >>

\* runChecker, lines 81-101: the exports when --export was given, then the
\* closing messages.
Export ==
    /\ Running
    /\ main = "export"
    /\ \E format \in ExportFormats, csvOK \in BOOLEAN, pdfOK \in BOOLEAN,
          summaryOK \in BOOLEAN :
          IF format = ""
          THEN UNCHANGED << files, warnings, disk, exported >>
          ELSE LET e == ExportResults(format, csvOK, pdfOK)
                   written == e.written
                                \cup (IF summaryOK THEN {"summary"} ELSE {})
               IN  /\ exported' = [format |-> format,
                                     attempted |-> e.attempted,
                                     written |-> e.written, err |-> e.err]
                   /\ files' = files \cup written
                   /\ disk' = WriteExports(disk, written)
                   /\ warnings' = warnings
                        \cup (IF e.err # "" THEN {"Export failed"} ELSE {})
                        \cup (IF summaryOK THEN {} ELSE {"Summary export failed"})
    /\ main' = "done"
    /\ UNCHANGED << runVars, report, again >>

\* ------------------------------------------------------------------ next
Next ==
    \/ ListCatalogue
    \/ ListCatalogueFail
    \/ StartWorker
    \/ StartPipeline
    \/ ProducerSend
    \/ ProducerClose
    \/ \E w \in Workers : WorkerTake(w)
    \/ \E w \in Workers : WorkerExit(w)
    \/ \E w \in Workers : WorkerProbe(w)
    \/ \E w \in Workers : WorkerPanic(w)
    \/ \E w \in Workers : WorkerSend(w)
    \/ CloseResults
    \/ Collect
    \/ CollectDone
    \/ SaveResults
    \/ MakeReport
    \/ SaveReport
    \/ HTMLReport
    \/ Export

Spec == Init /\ [][Next]_vars

\* Every goroutine that can run is eventually run by the Go scheduler, and
\* every call of runChecker returns; a panic is not owed to anyone.
Fairness ==
    /\ WF_vars(ListCatalogue \/ ListCatalogueFail)
    /\ WF_vars(StartWorker)
    /\ WF_vars(StartPipeline)
    /\ WF_vars(ProducerSend)
    /\ WF_vars(ProducerClose)
    /\ \A w \in Workers :
          /\ WF_vars(WorkerTake(w))
          /\ WF_vars(WorkerExit(w))
          /\ WF_vars(WorkerProbe(w))
          /\ WF_vars(WorkerSend(w))
    /\ WF_vars(CloseResults)
    /\ WF_vars(Collect)
    /\ WF_vars(CollectDone)
    /\ WF_vars(SaveResults)
    /\ WF_vars(MakeReport)
    /\ WF_vars(SaveReport)
    /\ WF_vars(HTMLReport)
    /\ WF_vars(Export)

LiveSpec == Init /\ [][Next]_vars /\ Fairness

\* ------------------------------------------- concurrent progress calls
\* The methods of ProgressBar called from several goroutines at once.  Each
\* statement of a method is a step of its own, so that the steps of two
\* goroutines can interleave wherever the mutex lets them.

\* A mutex that is taken by whoever asks.
MutexFree_NoLock(m) == TRUE

\* p.mu.Lock() goes through when no goroutine holds the mutex.
MutexFree(m) == m = 0

\* Update: p.mu.Lock()
UpdateLock(g) ==
    /\ caller[g].pc = "idle"
    /\ caller[g].calls < MaxCalls
    /\ MutexFree(mu)
    /\ mu' = g
    /\ caller' = [caller EXCEPT ![g].pc = "locked"]
    /\ UNCHANGED << token, projectID, threads, main, i, apis, listErr,
                    poolVars, progress, allResults, crashed, files, report,
                    warnings, docVars >>

\* Update: the reads of p.current and p.spinnerIndex
UpdateRead(g) ==
    /\ caller[g].pc = "locked"
    /\ caller' = [caller EXCEPT
                     ![g].pc = "read",
                     ![g].tmp = [current |-> progress.current,
                                 spinnerIndex |-> progress.spinnerIndex]]
    /\ UNCHANGED << token, projectID, threads, main, i, apis, listErr,
                    poolVars, progress, allResults, crashed, files, report,
                    warnings, mu, docVars >>

\* Update: the writes of p.current++ and of the next spinnerIndex, and the
\* line printed from them
UpdateWrite(g) ==
    /\ caller[g].pc = "read"
    /\ progress' = Update([progress EXCEPT
                              !.current = caller[g].tmp.current,
                              !.spinnerIndex = caller[g].tmp.spinnerIndex])
    /\ caller' = [caller EXCEPT ![g].pc = "written"]
    /\ UNCHANGED << token, projectID, threads, main, i, apis, listErr,
                    poolVars, allResults, crashed, files, report, warnings,
                    mu, docVars >>

\* Update: the deferred p.mu.Unlock()
UpdateUnlock(g) ==
    /\ caller[g].pc = "written"
    /\ mu' = 0
    /\ caller' = [caller EXCEPT ![g].pc = "idle",
                                ![g].calls = caller[g].calls + 1]
    /\ UNCHANGED << token, projectID, threads, main, i, apis, listErr,
                    poolVars, progress, allResults, crashed, files, report,
                    warnings, docVars >>

\* Complete: p.mu.Lock()
CompleteLock(g) ==
    /\ caller[g].pc = "idle"
    /\ ~progress.completed
    /\ MutexFree(mu)
    /\ mu' = g
    /\ caller' = [caller EXCEPT ![g].pc = "completing"]
    /\ UNCHANGED << token, projectID, threads, main, i, apis, listErr,
                    poolVars, progress, allResults, crashed, files, report,
                    warnings, docVars >>

\* Complete: the closing line is printed and the deferred Unlock runs
CompleteUnlock(g) ==
    /\ caller[g].pc = "completing"
    /\ progress' = Complete(progress)
    /\ mu' = 0
    /\ caller' = [caller EXCEPT ![g].pc = "idle"]
    /\ UNCHANGED << token, projectID, threads, main, i, apis, listErr,
                    poolVars, allResults, crashed, files, report, warnings, docVars >>

\* A progress bar for as many items as Update calls will be made, and the
\* goroutines about to call it.
ProgInit ==
    /\ token = ""
    /\ projectID = ""
    /\ threads = MaxCallers
    /\ main = "progress"
    /\ i = 0
    /\ apis = << >>
    /\ listErr = ""
    /\ jobs = << >>
    /\ jobsClosed = FALSE
    /\ producer = [pc |-> "none", next |-> 1]
    /\ results = << >>
    /\ resultsClosed = FALSE
    /\ wg = 0
    /\ worker = [w \in Workers |-> IdleWorker]
    /\ closer = "none"
    /\ progress = NewProgressBar(MaxCallers * MaxCalls)
    /\ allResults = << >>
    /\ crashed = ""
    /\ files = {}
    /\ report = NoReport
    /\ probes = [n \in Names |-> 0]
    /\ warnings = {}
    /\ mu = 0
    /\ caller = [g \in Callers |-> IdleCaller]
    /\ again = NoReport
    /\ output = DefaultOutput
    /\ disk = EmptyDisk
    /\ tieSwap = FALSE
    /\ exported = NoExport

ProgNext ==
    \/ \E g \in Callers : UpdateLock(g)
    \/ \E g \in Callers : UpdateRead(g)
    \/ \E g \in Callers : UpdateWrite(g)
    \/ \E g \in Callers : UpdateUnlock(g)
    \/ \E g \in Callers : CompleteLock(g)
    \/ \E g \in Callers : CompleteUnlock(g)

ProgSpec == ProgInit /\ [][ProgNext]_vars

\* ------------------------------------------------ GenerateReport alone
\* GenerateReport applied to result sets of up to MaxResults results.

\* The probes whose results the sets are made of: each identifier found
\* enabled, two of them also found disabled (404), one also failed (500).
ReportProbes ==
    { << n, [code |-> 200, state |-> "ENABLED"] >> :
          n \in { "compute.googleapis.com", "dataflow.googleapis.com",
                  "container.googleapis.com", "bigquery.googleapis.com",
                  "firestore.googleapis.com",
                  "videointelligence.googleapis.com" } }
    \cup { << n, [code |-> 404, state |-> ""] >> :
              n \in { "compute.googleapis.com", "bigquery.googleapis.com" } }
    \cup { << "compute.googleapis.com", [code |-> 500, state |-> ""] >> }

\* An APIResult a caller of GenerateReport builds by hand: enabled, priced,
\* 600 a month.
CustomResult ==
    [Name |-> "custom.googleapis.com", DisplayName |-> "custom.googleapis.com",
     Status |-> "ENABLED", Enabled |-> TRUE,
     CostInfo |-> [HasPricing |-> TRUE, UnlimitedCost |-> FALSE,
                   EstimatedCost |-> 600, Currency |-> "USD",
                   PricingDetails |-> "Pay per use"],
     Error |-> ""]

\* Another hand-built APIResult under the same display name: 70 a month.
CustomTwin ==
    [CustomResult EXCEPT !.Name = "custom-v2.googleapis.com",
                         !.CostInfo.EstimatedCost = 70]

\* The results of those probes as checkSingleAPI builds them, and the
\* hand-built ones.
ReportSample ==
    { checkSingleAPI(TRUE, "my-project", p[1], p[2]) : p \in ReportProbes }
        \cup { CustomResult, CustomTwin }

\* runChecker just before GenerateReport, with any result set at hand.
ReportInit ==
    /\ token = "test-token"
    /\ projectID = "my-project"
    /\ threads = 1
    /\ main = "saved"
    /\ i = 0
    /\ apis = << >>
    /\ listErr = ""
    /\ jobs = << >>
    /\ jobsClosed = FALSE
    /\ producer = [pc |-> "none", next |-> 1]
    /\ results = << >>
    /\ resultsClosed = FALSE
    /\ wg = 0
    /\ worker = [w \in Workers |-> IdleWorker]
    /\ closer = "none"
    /\ progress = NoProgress
    /\ allResults \in UNION { [1..n -> ReportSample] : n \in 0..MaxResults }
    /\ crashed = ""
    /\ files = {"results"}
    /\ report = NoReport
    /\ probes = [n \in Names |-> 0]
    /\ warnings = {}
    /\ mu = 0
    /\ caller = [g \in Callers |-> IdleCaller]
    /\ again = NoReport
    /\ output = DefaultOutput
    /\ disk = EmptyDisk
    /\ tieSwap = FALSE
    /\ exported = NoExport

ReportNext ==
    \/ MakeReport
    \/ MakeReportAgain

ReportSpec == ReportInit /\ [][ReportNext]_vars

\* ------------------------------------------- the run after the pool
\* runChecker from the return of CheckAllAPIs on, for each output name and
\* in a directory that is empty or holds the documents of a prior run.
OutInit ==
    /\ token = ""
    /\ projectID = ""
    /\ threads = 1
    /\ main = "returned"
    /\ i = 0
    /\ apis = << >>
    /\ listErr = ""
    /\ jobs = << >>
    /\ jobsClosed = FALSE
    /\ producer = [pc |-> "none", next |-> 1]
    /\ results = << >>
    /\ resultsClosed = FALSE
    /\ wg = 0
    /\ worker = [w \in Workers |-> IdleWorker]
    /\ closer = "none"
    /\ progress = NoProgress
    /\ allResults \in {<< >>, << CustomResult >>}
    /\ crashed = ""
    /\ files = {}
    /\ report = NoReport
    /\ probes = [n \in Names |-> 0]
    /\ warnings = {}
    /\ mu = 0
    /\ caller = [g \in Callers |-> IdleCaller]
    /\ again = NoReport
    /\ output \in OutputNames
    /\ disk \in {EmptyDisk} \cup {DiskAfterRun(o, "prior") : o \in OutputNames}
    /\ tieSwap = FALSE
    /\ exported = NoExport

OutNext ==
    \/ SaveResults
    \/ MakeReport
    \/ SaveReport
    \/ HTMLReport
    \/ Export

OutSpec == OutInit /\ [][OutNext]_vars

\* ------------------------------------------------ checkSingleAPI alone
\* One worker about to probe one identifier: every identifier of the two
\* tables of checker.go, and one that is in neither.
ProbeNames ==
    {
      "compute.googleapis.com", "storage.googleapis.com",
      "bigquery.googleapis.com", "pubsub.googleapis.com",
      "cloudfunctions.googleapis.com", "cloudrun.googleapis.com",
      "container.googleapis.com", "datastore.googleapis.com",
      "firestore.googleapis.com", "cloudsql.googleapis.com",
      "cloudbuild.googleapis.com", "cloudtasks.googleapis.com",
      "cloudscheduler.googleapis.com", "cloudkms.googleapis.com",
      "cloudiot.googleapis.com", "translate.googleapis.com",
      "vision.googleapis.com", "speech.googleapis.com",
      "language.googleapis.com", "ml.googleapis.com",
      "automl.googleapis.com", "dataflow.googleapis.com",
      "dataproc.googleapis.com", "analytics.googleapis.com",
      "maps.googleapis.com", "firebase.googleapis.com",
      "appengine.googleapis.com", "videointelligence.googleapis.com" }

ProbeInit ==
    /\ token \in {"", "test-token"}
    /\ projectID \in {"", "my-project"}
    /\ threads = 1
    /\ main = "collect"
    /\ i = 1
    /\ \E n \in ProbeNames :
          /\ apis = << n >>
          /\ worker = [w \in Workers |->
                          IF w = 1
                          THEN [pc |-> "probing", apiName |-> n,
                                result |-> NewResult("")]
                          ELSE IdleWorker]
    /\ listErr = ""
    /\ jobs = << >>
    /\ jobsClosed = TRUE
    /\ producer = [pc |-> "done", next |-> 2]
    /\ results = << >>
    /\ resultsClosed = FALSE
    /\ wg = 1
    /\ closer = "waiting"
    /\ progress = NewProgressBar(1)
    /\ allResults = << >>
    /\ crashed = ""
    /\ files = {}
    /\ report = NoReport
    /\ probes = [n \in Names \cup ProbeNames |-> 0]
    /\ warnings = {}
    /\ mu = 0
    /\ caller = [g \in Callers |-> IdleCaller]
    /\ again = NoReport
    /\ output = DefaultOutput
    /\ disk = EmptyDisk
    /\ tieSwap = FALSE
    /\ exported = NoExport

ProbeNext == \E w \in Workers : WorkerProbe(w)

ProbeSpec == ProbeInit /\ [][ProbeNext]_vars

\* ------------------------------------------------- reports of long lists
\* GenerateReport on a result set whose high-cost list is one element longer
\* than sort.Slice sorts by insertion.
LongLen == InsertionSortMax + 1

\* The k-th result a caller hands over: enabled, priced, high-cost.
LongItem(k, cost, unlimited) ==
    [Name |-> "item" \o ToString(k), DisplayName |-> "custom.googleapis.com",
     Status |-> "ENABLED", Enabled |-> TRUE,
     CostInfo |-> [HasPricing |-> TRUE, UnlimitedCost |-> unlimited,
                   EstimatedCost |-> cost, Currency |-> "USD",
                   PricingDetails |-> "Pay per use"],
     Error |-> ""]

\* LongLen results of pairwise different cost, but for the a-th and the
\* b-th, which cost the same.
LongResults(a, b, unlimited) ==
    [k \in 1..LongLen |->
        LongItem(k, 100 + (IF k = b THEN a ELSE k), unlimited)]

\* runChecker just before GenerateReport, with such a result set at hand, on
\* a build of either kind.
LongInit ==
    /\ token = "test-token"
    /\ projectID = "my-project"
    /\ threads = 1
    /\ main = "saved"
    /\ i = 0
    /\ apis = << >>
    /\ listErr = ""
    /\ jobs = << >>
    /\ jobsClosed = FALSE
    /\ producer = [pc |-> "none", next |-> 1]
    /\ results = << >>
    /\ resultsClosed = FALSE
    /\ wg = 0
    /\ worker = [w \in Workers |-> IdleWorker]
    /\ closer = "none"
    /\ progress = NoProgress
    /\ allResults \in { LongResults(a, b, u) :
                           a \in 1..LongLen, b \in 2..LongLen, u \in BOOLEAN }
    /\ crashed = ""
    /\ files = {"results"}
    /\ report = NoReport
    /\ probes = [n \in Names |-> 0]
    /\ warnings = {}
    /\ mu = 0
    /\ caller = [g \in Callers |-> IdleCaller]
    /\ again = NoReport
    /\ output = DefaultOutput
    /\ disk = EmptyDisk
    /\ tieSwap \in BOOLEAN
    /\ exported = NoExport

LongNext == MakeReport \/ MakeReportAgain

LongSpec == LongInit /\ [][LongNext]_vars

\* ------------------------------------------------------------ properties
\* CheckAllAPIs has returned its result set (the listing did not fail).
PoolReturned == main \notin {"list", "spawn", "collect"} /\ listErr = ""

RECURSIVE SumOver(_, _)
SumOver(f, S) ==
    IF S = {} THEN 0
    ELSE LET x == CHOOSE y \in S : TRUE IN f[x] + SumOver(f, S \ {x})

\* Number of probes that have returned so far.
ProbeTotal == SumOver(probes, Names)

\* Workers that hold a job or its result.
Busy(w) == worker[w].pc \in {"probing", "sending"}

ResultNames == {allResults[k].Name : k \in DOMAIN allResults}

\* C1: for every catalogue of M items and every worker count N in 1..M, the
\* slice CheckAllAPIs returns has exactly M entries, with pairwise distinct
\* Name values, which are exactly the identifiers of the catalogue.
C1_UniqueResults ==
    (PoolReturned /\ threads \in 1..Len(apis)) =>
        /\ Len(allResults) = Len(apis)
        /\ \A a, b \in DOMAIN allResults :
              a # b => allResults[a].Name # allResults[b].Name
        /\ ResultNames = {apis[k] : k \in DOMAIN apis}

\* C2: CheckAllAPIs returns only after it has received exactly M results,
\* M the length of the catalogue; it never returns a partial set.
C2_NoPartialReturn ==
    PoolReturned => Len(allResults) = Len(apis)

\* C3: once the catalogue is listed, CheckAllAPIs eventually returns unless
\* a probe call does not return (panics): producer, workers, the closing
\* goroutine and the collector never block each other for ever, whatever
\* the probes answer.
C3_Returns ==
    (main = "spawn") ~> (PoolReturned \/ crashed = PanicInProbe)

C3_Witness ==
    /\ main = "returned"
    /\ threads >= 2
    /\ Len(allResults) >= 2
    /\ \A k \in DOMAIN allResults : allResults[k].Status = "ERROR"

\* C4: the results channel is closed only after every started worker has
\* exited; no worker sends on the closed channel, and every result a probe
\* produced is in the channel or already collected when it is closed.
C4_CloseAfterWorkers ==
    /\ crashed # SendOnClosed
    /\ resultsClosed =>
          /\ wg = 0
          /\ \A w \in Workers : w <= threads => worker[w].pc = "exited"
          /\ Len(results) + Len(allResults) = ProbeTotal

C4_Witness ==
    /\ resultsClosed
    /\ threads >= 2
    /\ Len(results) >= 1
    /\ Len(allResults) >= 1

\* C5: no identifier is given to more than one worker; each catalogue item
\* is received from the job queue by exactly one worker and probed exactly
\* once in a run.
C5_OneWorkerPerIdentifier ==
    /\ \A v, w \in Workers :
          (v # w /\ Busy(v) /\ Busy(w)) => worker[v].apiName # worker[w].apiName
    /\ \A n \in Names : probes[n] <= 1

\* A result as checkSingleAPI builds it: ERROR exactly with an error text,
\* and then nothing else filled in.
WellFormed(r) ==
    /\ (r.Status = "ERROR") <=> (r.Error # "")
    /\ r.Status \in {"ENABLED", "DISABLED", "ERROR"}
    /\ r.Status = "ERROR" => r = [NewResult(r.Name) EXCEPT !.Status = "ERROR",
                                                           !.Error = r.Error]
    /\ r.Status # "ERROR" =>
          /\ r.Enabled = (r.Status = "ENABLED")
          /\ r.DisplayName = getAPIDisplayName(r.Name)
          /\ r.CostInfo = getCostInfo(r.Name)

ErroredResults == {k \in DOMAIN allResults : allResults[k].Status = "ERROR"}

\* C6: a failed state check gives an ERROR result with the error text for
\* that item instead of a fault; the other results are what their own probe
\* gives, every probed item's result is collected (the run is not aborted),
\* and the report counts each ERROR result in ErrorCount.
C6_ErrorIsolated ==
    /\ \A w \in Workers : worker[w].pc = "sending" =>
          /\ WellFormed(worker[w].result)
          /\ worker[w].result.Name = worker[w].apiName
    /\ \A k \in DOMAIN results : WellFormed(results[k])
    /\ \A k \in DOMAIN allResults : WellFormed(allResults[k])
    /\ PoolReturned => Len(allResults) = ProbeTotal
    /\ report.built =>
          /\ report.Summary.ErrorCount = Cardinality(ErroredResults)
          /\ report.Summary.TotalAPIs = Len(allResults)

C6_Witness ==
    /\ main = "done"
    /\ report.built
    /\ report.Summary.ErrorCount >= 1
    /\ report.Summary.EnabledCount >= 1
    /\ "report" \in files

\* C7: when listing the catalogue fails, CheckAllAPIs returns the error and
\* no results before any worker is started or any job queued; the run stops
\* without a probe and without writing results or a report.
C7_ListFailStops ==
    listErr # "" =>
        /\ main = "fatal"
        /\ allResults = << >>
        /\ wg = 0
        /\ \A w \in Workers : worker[w].pc = "none"
        /\ jobs = << >> /\ results = << >>
        /\ producer.pc = "none" /\ closer = "none"
        /\ ProbeTotal = 0
        /\ files = {}
        /\ ~report.built

C7_Witness == listErr # "" /\ main = "fatal"

\* C8: a panic raised while a worker probes one item does not end the pool:
\* the process keeps running and the remaining items are probed.
C8_PanicContained == crashed # PanicInProbe

\* C9: the pool runs with exactly N worker goroutines, N the configured
\* thread count, and N is at least 1 whenever the pool runs.
C9_WorkerCount ==
    main = "collect" =>
        /\ threads >= 1
        /\ Cardinality({w \in Workers : worker[w].pc # "none"}) = threads

\* C10: the progress counter equals the number of results the collector has
\* received and never exceeds M; it changes only in a step of the collector
\* that receives one result, and then by exactly one.
C10_ProgressCounts ==
    /\ [](/\ progress.current = Len(allResults)
          /\ progress.current <= Len(apis)
          /\ main \notin {"list", "spawn"} => progress.total = Len(apis))
    /\ [][/\ progress'.current >= progress.current
          /\ progress'.current # progress.current =>
                /\ progress'.current = progress.current + 1
                /\ results # << >>
                /\ allResults' = Append(allResults, Head(results))
                /\ results' = Tail(results)
                /\ worker' = worker]_vars

C10_Witness ==
    /\ main = "collect"
    /\ threads >= 2
    /\ progress.current >= 1
    /\ progress.current < Len(apis)
    /\ \E w \in Workers : Busy(w)


RECURSIVE CallsOf(_)
CallsOf(S) ==
    IF S = {} THEN 0
    ELSE LET g == CHOOSE h \in S : TRUE IN caller[g].calls + CallsOf(S \ {g})

\* C11: Update calls made concurrently from several goroutines lose no
\* update and leave no torn state: the counter equals the number of calls
\* that have done their increment (after n calls in total, current = n), at
\* most one goroutine is inside a method, and whenever the mutex is free
\* the spinner index agrees with the counter.
C11_NoLostUpdate ==
    /\ progress.current =
          CallsOf(Callers) + Cardinality({g \in Callers : caller[g].pc = "written"})
    /\ Cardinality({g \in Callers : caller[g].pc # "idle"}) <= 1
    /\ \A g \in Callers : caller[g].pc # "idle" => mu = g
    /\ mu = 0 => progress.spinnerIndex = progress.current % SpinnerLen

C11_Witness ==
    /\ \A g \in Callers : caller[g].pc = "idle" /\ caller[g].calls >= 2
    /\ progress.current = CallsOf(Callers)
    /\ progress.completed


\* ------------------------------------------------- report properties
\* The state of a result as the result itself shows it.
StatusIs(st, r) == r.Status = st
HasStatusEnabled(r) == StatusIs("ENABLED", r)
HasStatusDisabled(r) == StatusIs("DISABLED", r)
HasStatusError(r) == StatusIs("ERROR", r)
EnabledWithPricing(r) == HasStatusEnabled(r) /\ r.CostInfo.HasPricing

\* How often x occurs in s.
Count(s, x) == Cardinality({k \in DOMAIN s : s[k] = x})

Range(s) == {s[k] : k \in DOMAIN s}

\* s and t hold the same results, each as often.
SameResults(s, t) ==
    \A x \in Range(s) \cup Range(t) : Count(s, x) = Count(t, x)

\* C12: for every result set, TotalAPIs of the report is the sum of
\* EnabledCount, DisabledCount and ErrorCount.
C12_CountsAddUp ==
    report.built =>
        /\ report.Summary.TotalAPIs = Len(allResults)
        /\ report.Summary.TotalAPIs =
              report.Summary.EnabledCount + report.Summary.DisabledCount
                 + report.Summary.ErrorCount

C12_Witness ==
    /\ report.built
    /\ report.Summary.EnabledCount = 1
    /\ report.Summary.DisabledCount = 1
    /\ report.Summary.ErrorCount = 1


\* C13: GenerateReport partitions the results by state: EnabledAPIs holds
\* exactly the results of status ENABLED, DisabledAPIs exactly those of
\* status DISABLED, and a result of status ERROR is in neither list and is
\* counted in ErrorCount.
C13_Partition ==
    report.built =>
        /\ report.EnabledAPIs = SelectSeq(allResults, HasStatusEnabled)
        /\ report.DisabledAPIs = SelectSeq(allResults, HasStatusDisabled)
        /\ \A r \in Range(allResults) :
              HasStatusError(r) =>
                 /\ r \notin Range(report.EnabledAPIs)
                 /\ r \notin Range(report.DisabledAPIs)
        /\ report.Summary.ErrorCount =
              Len(SelectSeq(allResults, HasStatusError))

C13_Witness ==
    /\ report.built
    /\ Len(report.EnabledAPIs) = 1
    /\ Len(report.DisabledAPIs) = 1
    /\ Len(allResults) = 3
    /\ \E r \in Range(allResults) : HasStatusError(r)

RECURSIVE CostOver(_)
CostOver(s) ==
    IF s = << >> THEN 0 ELSE s[1].CostInfo.EstimatedCost + CostOver(Tail(s))

\* C14: Summary.TotalCost is the sum of EstimatedCost over exactly the
\* results that are enabled and have pricing; disabled, errored and
\* pricing-less results add nothing.
C14_TotalCost ==
    report.built =>
        /\ report.Summary.TotalCost =
              CostOver(SelectSeq(allResults, EnabledWithPricing))
        /\ report.CostAnalysis.TotalEstimatedCost = report.Summary.TotalCost

C14_Witness ==
    /\ report.built
    /\ report.Summary.TotalCost = 350
    /\ \E r \in Range(allResults) :
          HasStatusDisabled(r) /\ r.CostInfo.EstimatedCost > 0

\* C15: CostBreakdown has an entry (under the display name, with the
\* estimated cost) for every enabled result with pricing, and no entry for
\* any other result.
C15_Breakdown ==
    report.built =>
        /\ DOMAIN report.CostAnalysis.CostBreakdown =
              { r.DisplayName :
                   r \in Range(SelectSeq(allResults, EnabledWithPricing)) }
        /\ \A n \in DOMAIN report.CostAnalysis.CostBreakdown :
              \E r \in Range(allResults) :
                 /\ EnabledWithPricing(r)
                 /\ r.DisplayName = n
                 /\ r.CostInfo.EstimatedCost =
                       report.CostAnalysis.CostBreakdown[n]

C15_Witness ==
    /\ report.built
    /\ Cardinality(DOMAIN report.CostAnalysis.CostBreakdown) = 1
    /\ Len(allResults) = 3
    /\ \E r \in Range(allResults) :
          HasStatusEnabled(r) /\ ~r.CostInfo.HasPricing
    /\ \E r \in Range(allResults) : HasStatusDisabled(r)

AboveFifty(r) == EnabledWithPricing(r) /\ r.CostInfo.EstimatedCost > 50

\* C16: HighCostAPIs holds exactly the enabled results with pricing whose
\* EstimatedCost is strictly greater than 50; a result of cost exactly 50, a
\* disabled result or a pricing-less result is never in it.
C16_HighCostMembers ==
    report.built =>
        SameResults(report.CostAnalysis.HighCostAPIs,
                    SelectSeq(allResults, AboveFifty))

C16_Witness ==
    /\ report.built
    /\ Len(report.CostAnalysis.HighCostAPIs) = 1
    /\ \E r \in Range(allResults) :
          EnabledWithPricing(r) /\ r.CostInfo.EstimatedCost = 50
    /\ \E r \in Range(allResults) :
          HasStatusDisabled(r) /\ r.CostInfo.EstimatedCost > 50

\* C17 as stated: HighCostAPIs is sorted strictly descending by
\* EstimatedCost, each item's cost greater than the cost of the item after.
C17_StrictlyDescending ==
    report.built =>
        \A k \in 1..(Len(report.CostAnalysis.HighCostAPIs) - 1) :
            report.CostAnalysis.HighCostAPIs[k].CostInfo.EstimatedCost >
               report.CostAnalysis.HighCostAPIs[k + 1].CostInfo.EstimatedCost

\* C17: for every result set, HighCostAPIs is sorted descending by
\* EstimatedCost: no item's cost is less than the cost of the item after
\* it (items of equal cost stay next to each other).
C17_Descending ==
    report.built =>
        \A k \in 1..(Len(report.CostAnalysis.HighCostAPIs) - 1) :
            report.CostAnalysis.HighCostAPIs[k].CostInfo.EstimatedCost >=
               report.CostAnalysis.HighCostAPIs[k + 1].CostInfo.EstimatedCost

C17_Witness ==
    /\ report.built
    /\ Len(report.CostAnalysis.HighCostAPIs) = 3
    /\ report.CostAnalysis.HighCostAPIs # allResults
    /\ report.CostAnalysis.HighCostAPIs[1].CostInfo.EstimatedCost
          = report.CostAnalysis.HighCostAPIs[2].CostInfo.EstimatedCost
    /\ report.CostAnalysis.HighCostAPIs[2].CostInfo.EstimatedCost
          > report.CostAnalysis.HighCostAPIs[3].CostInfo.EstimatedCost

UnlimitedEnabled(r) == EnabledWithPricing(r) /\ r.CostInfo.UnlimitedCost

\* C18: UnlimitedCostAPIs holds exactly the results that are enabled, have
\* pricing and have UnlimitedCost true, sorted ascending by DisplayName.
C18_Unlimited ==
    report.built =>
        /\ SameResults(report.CostAnalysis.UnlimitedCostAPIs,
                       SelectSeq(allResults, UnlimitedEnabled))
        /\ \A k \in 1..(Len(report.CostAnalysis.UnlimitedCostAPIs) - 1) :
              NameRank(report.CostAnalysis.UnlimitedCostAPIs[k].DisplayName)
                 <= NameRank(report.CostAnalysis.UnlimitedCostAPIs[k + 1].DisplayName)

C18_Witness ==
    /\ report.built
    /\ Len(report.CostAnalysis.UnlimitedCostAPIs) = 2
    /\ report.CostAnalysis.UnlimitedCostAPIs[1].DisplayName = "BigQuery API"
    /\ report.CostAnalysis.UnlimitedCostAPIs[2].DisplayName = "Cloud Firestore API"
    /\ allResults[1].DisplayName = "Cloud Firestore API"
    /\ \E r \in Range(allResults) :
          HasStatusDisabled(r) /\ r.CostInfo.UnlimitedCost


\* n times the same kind.
Repeat(kind, n) == [k \in 1..n |-> kind]

\* A summary line and one line per item when there are items, else nothing.
BlockKinds(summary, item, n) ==
    IF n > 0 THEN << summary >> \o Repeat(item, n) ELSE << >>

KindsOf(lines) == [k \in DOMAIN lines |-> lines[k].kind]

\* C19: the recommendations come in the fixed order: the unlimited-risk
\* block (a summary line, then one line per item in the order of the list;
\* present iff the list is non-empty), the high-cost block (same shape,
\* present iff non-empty), the total-cost advisory (at most one line), the
\* disabled-count advisory (present iff at least one result is disabled),
\* and always the same three general lines as the last three entries.
C19_RecommendationOrder ==
    report.built =>
        LET recs == report.Recommendations
            u == report.CostAnalysis.UnlimitedCostAPIs
            h == report.CostAnalysis.HighCostAPIs
            nu == IF Len(u) > 0 THEN Len(u) + 1 ELSE 0
            nh == IF Len(h) > 0 THEN Len(h) + 1 ELSE 0
            hasTotal == \E k \in DOMAIN recs : recs[k].kind = "totalCost"
            hasDisabled == \E r \in Range(allResults) : HasStatusDisabled(r)
        IN  /\ KindsOf(recs) =
                  BlockKinds("unlimitedSummary", "unlimitedItem", Len(u))
                     \o BlockKinds("highCostSummary", "highCostItem", Len(h))
                     \o (IF hasTotal THEN << "totalCost" >> ELSE << >>)
                     \o (IF hasDisabled THEN << "disabled" >> ELSE << >>)
                     \o << "general1", "general2", "general3" >>
            /\ \A k \in 1..Len(u) :
                  recs[1 + k].text =
                     "   - " \o u[k].DisplayName \o ": "
                        \o u[k].CostInfo.PricingDetails
            /\ \A k \in 1..Len(h) :
                  recs[nu + 1 + k].text =
                     "   - " \o h[k].DisplayName \o ": $"
                        \o ToString(h[k].CostInfo.EstimatedCost) \o ".00/month"
            /\ Len(recs) >= 3
            /\ recs[Len(recs) - 2].text =
                  "Set up billing alerts and budget limits in Google Cloud Console"
            /\ recs[Len(recs) - 1].text =
                  "Regularly monitor API usage and costs"
            /\ recs[Len(recs)].text =
                  "Consider using quotas and rate limiting for high-cost APIs"

C19_Witness ==
    /\ report.built
    /\ KindsOf(report.Recommendations) =
          << "unlimitedSummary", "unlimitedItem",
             "highCostSummary", "highCostItem",
             "totalCost", "disabled",
             "general1", "general2", "general3" >>

ExportStepFails ==
    /\ main \in {"reportSaved", "export"}
    /\ warnings' # warnings

C23_SeparateDocuments ==
    /\ [](main = "done" /\ {"results", "report", "html"} \subseteq files =>
             /\ output # ReportFile(output)
             /\ output # HTMLFile(output)
             /\ ReportFile(output) # HTMLFile(output)
             /\ disk[output] = Doc("this", "results")
             /\ disk[ReportFile(output)] = Doc("this", "report")
             /\ disk[HTMLFile(output)] = Doc("this", "html"))
    /\ [][\A p \in Paths : disk[p].run = "prior" => disk'[p] = disk[p]]_vars


\* The results that checkSingleAPI has handed back to a worker.
Probed == {worker[w].result : w \in {v \in Workers : worker[v].pc = "sending"}}

\* C24: a run started as the Makefile's test-run (--token test-token, no
\* project ID) uses simulated responses only: the catalogue is the static
\* list, listing cannot fail, and every result is the one the simulated
\* state check gives.
C24_TestRunSimulated ==
    (token = "test-token" /\ projectID = "") =>
        /\ listErr = ""
        /\ main # "list" =>
              apis \in {getAvailableAPIsStatic, getAvailableAPIsLegacy}
        /\ \A r \in Probed \cup Range(allResults) :
              r = checkSingleAPI(FALSE, "", r.Name, [code |-> 0, state |-> ""])

\* C25: every result of checkSingleAPI, whatever its state, has a
\* DisplayName: the label of the displayNames table when the identifier has
\* one, else the identifier itself.
C25_AlwaysDisplayName ==
    \A r \in Probed :
        /\ r.DisplayName # ""
        /\ r.DisplayName = getAPIDisplayName(r.Name)

\* C26: for every result of checkSingleAPI the Error field is non-empty iff
\* Status is "ERROR"; an enabled or disabled result carries no error text,
\* and GenerateReport counts the result as errored exactly when its Status
\* is "ERROR".
C26_ErrorIffErrored ==
    \A r \in Probed :
        /\ r.Status \in {"ENABLED", "DISABLED", "ERROR"}
        /\ r.Error # "" <=> r.Status = "ERROR"
        /\ r.Status = "ENABLED" <=> r.Enabled
        /\ GenerateReport(<< r >>).Summary.ErrorCount =
              (IF r.Status = "ERROR" THEN 1 ELSE 0)

C26_Witness ==
    \E r \in Probed :
        /\ r.Status = "ERROR"
        /\ r.Error = "API request failed with status: 500"
        /\ r.Name = "compute.googleapis.com"

\* The cost fields as the zero CostInfo or the entry for unknown
\* identifiers have them.
DefaultCostFields(c) ==
    /\ c.EstimatedCost = 0
    /\ c.Currency \in {"", "USD"}
    /\ c.PricingDetails \in {"", "No pricing information available"}

\* C27: for every result of checkSingleAPI, HasPricing is false iff the
\* cost fields (EstimatedCost, Currency, PricingDetails) are zero or the
\* default ones and UnlimitedCost is false.
C27_NoPricingIffDefault ==
    \A r \in Probed :
        ~r.CostInfo.HasPricing <=>
            (DefaultCostFields(r.CostInfo) /\ ~r.CostInfo.UnlimitedCost)

C27_Witness ==
    \E r \in Probed :
        /\ r.Name = "videointelligence.googleapis.com"
        /\ r.Status = "ENABLED"
        /\ ~r.CostInfo.HasPricing
        /\ r.CostInfo.PricingDetails = "No pricing information available"


\* The workers inside checkSingleAPI.
Probing == {w \in Workers : worker[w].pc = "probing"}

\* The worker goroutines started so far.
Started == {w \in Workers : worker[w].pc # "none"}

\* C28: at every moment at most N = threads probe calls are in progress
\* (no more than N workers exist), and one task only, the collector of
\* CheckAllAPIs, takes results off the results channel: each result taken
\* is the oldest one and goes to the end of allResults.
C28_BoundedPool ==
    /\ [](/\ Cardinality(Probing) <= threads
          /\ Cardinality(Started) <= threads)
    /\ [][Len(results') < Len(results) =>
             /\ main = "collect"
             /\ results' = Tail(results)
             /\ allResults' = Append(allResults, Head(results))
             /\ worker' = worker]_vars

C28_Witness ==
    /\ threads = MaxThreads
    /\ Cardinality(Probing) = threads
    /\ main = "collect"
    /\ Len(allResults) = 0

\* C29: items are not assigned to workers beforehand: whenever a worker is
\* idle and an item is in the job queue that worker can take it (the
\* oldest one), and a worker that has sent its result is idle again at
\* once, so it can take the next item.
C29_FirstAvailable ==
    /\ [](\A w \in Workers :
             (Running /\ worker[w].pc = "idle" /\ jobs # << >>) =>
                 ENABLED WorkerTake(w))
    /\ [][\A w \in Workers :
             (worker[w].pc = "sending" /\ worker'[w] # worker[w]) =>
                 worker'[w].pc = "idle"]_vars

C29_Witness ==
    /\ Running
    /\ threads = 2
    /\ worker[1].pc = "idle" /\ worker[2].pc = "idle"
    /\ Len(jobs) = 1
    /\ Len(results) = 1

\* C30: a worker exits only when the job queue is closed and empty (no item
\* is left unclaimed and the producer has queued all of them), and the pool
\* counts as drained (wg.Wait returns, results is closed) only when all N
\* workers have exited.
C30_ExitWhenDrained ==
    /\ [][\A w \in Workers :
             (worker[w].pc # "exited" /\ worker'[w].pc = "exited") =>
                 /\ worker[w].pc = "idle"
                 /\ jobsClosed
                 /\ jobs = << >>
                 /\ producer.pc = "done"
                 /\ producer.next > Len(apis)]_vars
    /\ [](resultsClosed =>
             /\ wg = 0
             /\ \A w \in 1..threads : worker[w].pc = "exited")

C30_Witness ==
    /\ resultsClosed
    /\ threads = 2
    /\ Len(apis) = 2
    /\ worker[1].pc = "exited" /\ worker[2].pc = "exited"
    /\ worker[1].apiName # "" /\ worker[2].apiName # ""


\* C31: the job queue and the results queue each have capacity M =
\* len(apis): the producer can always queue its next item, a worker with a
\* result in hand can always send it however slowly the collector drains,
\* and neither buffer ever holds more than M entries.
C31_QueuesHoldAll ==
    /\ Len(jobs) <= Len(apis)
    /\ Len(results) <= Len(apis)
    /\ (Running /\ producer.pc = "sending" /\ producer.next <= Len(apis)) =>
          ENABLED ProducerSend
    /\ \A w \in Workers :
          (Running /\ worker[w].pc = "sending") =>
              /\ ~resultsClosed
              /\ Len(results) < Len(apis)
              /\ ENABLED WorkerSend(w)

C31_Witness ==
    /\ Running
    /\ Len(apis) = MaxItems
    /\ Len(results) = Len(apis)
    /\ allResults = << >>
    /\ main = "collect"


\* The elements of a sequence that pass a test chosen per element x are, in
\* the sorted list and in the input, the same in the same order.
SameCostOrder(sorted, input) ==
    \A x \in Range(sorted) :
        LET Tied(y) == y.CostInfo.EstimatedCost = x.CostInfo.EstimatedCost
            TiedMember(y) == Tied(y) /\ y \in Range(sorted)
        IN  SelectSeq(sorted, Tied) = SelectSeq(input, TiedMember)

SameNameOrder(sorted, input) ==
    \A x \in Range(sorted) :
        LET Tied(y) == y.DisplayName = x.DisplayName
            TiedMember(y) == Tied(y) /\ y \in Range(sorted)
        IN  SelectSeq(sorted, Tied) = SelectSeq(input, TiedMember)

\* C32: the report's sorts are stable: high-cost items of equal
\* EstimatedCost keep their input order in HighCostAPIs, and unlimited-risk
\* items of equal DisplayName keep their input order in UnlimitedCostAPIs.
C32_StableSorts ==
    report.built =>
        /\ SameCostOrder(report.CostAnalysis.HighCostAPIs, allResults)
        /\ SameNameOrder(report.CostAnalysis.UnlimitedCostAPIs, allResults)

\* C33: when two enabled results with pricing share a DisplayName,
\* CostBreakdown holds one entry for that name, whose value is the cost of
\* the later of them in iteration order, while TotalCost still adds the costs
\* of both.
C33_SharedNameLastWins ==
    report.built =>
        /\ \A j \in DOMAIN allResults, k \in DOMAIN allResults :
              ( /\ j < k
                /\ EnabledWithPricing(allResults[j])
                /\ EnabledWithPricing(allResults[k])
                /\ allResults[j].DisplayName = allResults[k].DisplayName
                /\ \A m \in DOMAIN allResults :
                      ( /\ EnabledWithPricing(allResults[m])
                        /\ allResults[m].DisplayName = allResults[k].DisplayName )
                      => m <= k )
              => report.CostAnalysis.CostBreakdown[allResults[k].DisplayName]
                    = allResults[k].CostInfo.EstimatedCost
        /\ report.Summary.TotalCost =
              CostOver(SelectSeq(allResults, EnabledWithPricing))

C33_Witness ==
    /\ report.built
    /\ Len(allResults) = 2
    /\ EnabledWithPricing(allResults[1])
    /\ EnabledWithPricing(allResults[2])
    /\ allResults[1].DisplayName = allResults[2].DisplayName
    /\ allResults[1].CostInfo.EstimatedCost = 600
    /\ allResults[2].CostInfo.EstimatedCost = 70
    /\ DOMAIN report.CostAnalysis.CostBreakdown = {allResults[2].DisplayName}
    /\ report.CostAnalysis.CostBreakdown[allResults[2].DisplayName] = 70
    /\ report.Summary.TotalCost = 670


\* C34: no result is changed after its worker created it: a worker puts its
\* result into the channel as it is, the collector only appends the head of
\* the channel to the slice, and GenerateReport leaves the slice it is given
\* unchanged (same elements, same order); the lists of the report hold
\* results of the slice as they are.
C34_ResultsImmutable ==
    /\ [][/\ results' # results =>
                \/ /\ results # << >>
                   /\ results' = Tail(results)
                   /\ allResults' = Append(allResults, Head(results))
                \/ /\ allResults' = allResults
                   /\ \E w \in Workers :
                         /\ worker[w].pc = "sending"
                         /\ results' = Append(results, worker[w].result)
          /\ allResults' # allResults =>
                /\ results # << >>
                /\ allResults' = Append(allResults, Head(results))
          /\ report' # report => allResults' = allResults]_vars
    /\ [](report.built =>
            /\ Range(report.EnabledAPIs) \subseteq Range(allResults)
            /\ Range(report.DisabledAPIs) \subseteq Range(allResults)
            /\ Range(report.CostAnalysis.HighCostAPIs) \subseteq Range(allResults)
            /\ Range(report.CostAnalysis.UnlimitedCostAPIs)
                  \subseteq Range(allResults))

C34_Witness ==
    /\ report.built
    /\ main = "done"
    /\ Len(allResults) = 2
    /\ allResults[1].Name # apis[1]
    /\ Len(report.CostAnalysis.HighCostAPIs) >= 1
    /\ Len(report.DisabledAPIs) >= 1

\* C36: when more workers are started than the catalogue has items, or the
\* catalogue is empty, the pool still returns (unless a probe panics), with
\* exactly M results after exactly M probes and M Update calls, Complete
\* coming after the last Update; at least N - M workers exit without having
\* taken any item.
SurplusCase == threads > Len(apis) \/ Len(apis) = 0

NeverProbed(w) == worker[w].pc = "exited" /\ worker[w].apiName = ""

C36_SurplusWorkers ==
    /\ []((PoolReturned /\ SurplusCase) =>
            /\ Len(allResults) = Len(apis)
            /\ ProbeTotal = Len(apis)
            /\ progress.current = Len(apis)
            /\ progress.completed
            /\ Cardinality({w \in Workers : w <= threads /\ NeverProbed(w)})
                  >= threads - Len(apis))
    /\ [][(SurplusCase /\ progress'.completed /\ ~progress.completed) =>
              /\ progress.current = Len(apis)
              /\ progress'.current = Len(apis)]_vars
    /\ ((main = "spawn" /\ SurplusCase) ~>
            (PoolReturned \/ crashed = PanicInProbe))

C36_Witness ==
    /\ main = "returned"
    /\ threads = 2
    /\ Len(apis) = 1
    /\ Len(allResults) = 1
    /\ progress.completed
    /\ \E w \in Workers : NeverProbed(w)
    /\ \E w \in Workers : worker[w].pc = "exited" /\ worker[w].apiName # ""

\* C39: at every Update call of a run the bar's total is above zero and
\* 1 <= current <= total, so the filled width lies in 0..30, the number of
\* empty cells is not negative, and Update does not panic.
C39_UpdateInRange ==
    /\ crashed # RepeatPanic
    /\ progress.current >= 1 =>
          /\ progress.total > 0
          /\ progress.current <= progress.total
          /\ \A filled \in FilledOutcomes(progress) :
                /\ filled \in 0..BarWidth
                /\ BarWidth - filled >= 0

C39_Witness ==
    /\ Running
    /\ main = "collect"
    /\ progress.total = 2
    /\ progress.current = 1
    /\ FilledOutcomes(progress) = {14, 15}


\* Every order in which the results of s can arrive.
Arrivals(s) ==
    { [k \in DOMAIN s |-> s[f[k]]] :
         f \in { g \in [DOMAIN s -> DOMAIN s] :
                    \A a \in DOMAIN s, b \in DOMAIN s : a # b => g[a] # g[b] } }

DistinctDisplayNames(s) ==
    \A j \in DOMAIN s, k \in DOMAIN s : j # k => s[j].DisplayName # s[k].DisplayName

\* C35: for results of pairwise distinct display names, the report of any
\* other arrival order of the same results has the same Summary (counts and
\* TotalCost), the same CostBreakdown and the same members of HighCostAPIs
\* and UnlimitedCostAPIs.
C35_OrderIndependent ==
    (report.built /\ DistinctDisplayNames(allResults)) =>
        \A other \in Arrivals(allResults) :
            LET r == GenerateReport(other)
            IN  /\ r.Summary = report.Summary
                /\ r.CostAnalysis.TotalEstimatedCost =
                      report.CostAnalysis.TotalEstimatedCost
                /\ r.CostAnalysis.CostBreakdown =
                      report.CostAnalysis.CostBreakdown
                /\ SameResults(r.CostAnalysis.HighCostAPIs,
                               report.CostAnalysis.HighCostAPIs)
                /\ SameResults(r.CostAnalysis.UnlimitedCostAPIs,
                               report.CostAnalysis.UnlimitedCostAPIs)

C35_Witness ==
    /\ report.built
    /\ Len(allResults) = 3
    /\ DistinctDisplayNames(allResults)
    /\ Cardinality(Arrivals(allResults)) = 6
    /\ report.Summary.ErrorCount = 1
    /\ Len(report.CostAnalysis.HighCostAPIs) = 2
    /\ allResults[1].CostInfo.EstimatedCost < allResults[3].CostInfo.EstimatedCost


NotEnabled(r) == r.Status \in {"DISABLED", "ERROR"} /\ ~r.Enabled

\* C37: in real mode (a token) without a project ID no state check answers
\* enabled: every result of the run is DISABLED or ERROR, and the report has
\* EnabledCount 0, no high-cost item, no unlimited-cost item, an empty
\* CostBreakdown and TotalCost 0.
C37_NoProjectNothingEnabled ==
    (token # "" /\ projectID = "") =>
        /\ \A k \in DOMAIN allResults : NotEnabled(allResults[k])
        /\ \A k \in DOMAIN results : NotEnabled(results[k])
        /\ \A w \in Workers :
              worker[w].pc = "sending" => NotEnabled(worker[w].result)
        /\ report.built =>
              /\ report.Summary.EnabledCount = 0
              /\ report.EnabledAPIs = << >>
              /\ report.CostAnalysis.HighCostAPIs = << >>
              /\ report.CostAnalysis.UnlimitedCostAPIs = << >>
              /\ DOMAIN report.CostAnalysis.CostBreakdown = {}
              /\ report.Summary.TotalCost = 0
              /\ report.CostAnalysis.TotalEstimatedCost = 0

C37_Witness ==
    /\ token # ""
    /\ projectID = ""
    /\ main = "done"
    /\ report.built
    /\ Len(allResults) = 2
    /\ report.Summary.DisabledCount = 1
    /\ report.Summary.ErrorCount = 1
    /\ report.Summary.TotalAPIs = 2

\* C38: ExportResults with format "both" runs the CSV export first and
\* attempts the PDF export only when the CSV export succeeded, and returns
\* the first failure; with a format other than "csv", "pdf" and "both" it
\* attempts nothing, writes no file and returns the unsupported-format error.
C38_ExportBothAndUnsupported ==
    /\ exported.format = "both" =>
          /\ Len(exported.attempted) >= 1
          /\ exported.attempted[1] = "csv"
          /\ Len(exported.attempted) = 1 =>
                /\ exported.err = "CSV export failed"
                /\ exported.written = {}
          /\ Len(exported.attempted) > 1 =>
                /\ exported.attempted = <<"csv", "pdf">>
                /\ "csv" \in exported.written
                /\ exported.err \in {"", "PDF export failed"}
                /\ exported.err = "" <=> "pdf" \in exported.written
          /\ exported.err = "CSV export failed" => exported.attempted = <<"csv">>
    /\ exported.format \notin {"", "csv", "pdf", "both"} =>
          /\ exported.attempted = << >>
          /\ exported.written = {}
          /\ exported.err = "unsupported export format"
          /\ files \cap {"csv", "pdf"} = {}
          /\ \A k \in {"csv", "pdf"} : disk[ExportPath(k)] # Doc("this", k)
          /\ "Export failed" \in warnings

C38_Witness ==
    /\ main = "done"
    /\ exported.format = "both"
    /\ exported.attempted = <<"csv", "pdf">>
    /\ exported.err = "PDF export failed"
    /\ exported.written = {"csv"}
    /\ disk[ExportPath("csv")] = Doc("this", "csv")
    /\ disk[ExportPath("pdf")] # Doc("this", "pdf")


====
